---- MODULE Spec2Model ----
(***************************************************************************)
(* Model of the TwistedLogic session core.                                 *)
(*                                                                         *)
(*   Spec       the GameScreen component (components/GameScreen.tsx):      *)
(*              story state, text requests in flight, asset back-fill and  *)
(*              the audio playback controller, one mounted instance.       *)
(*   SpecChain  the free fallback chains (services/textService.ts and      *)
(*              services/imageService.ts).                                 *)
(*   SpecProvider  the provider adapters (services/geminiService.ts): one  *)
(*              call at a time, from its invocation to its settlement.     *)
(*   SpecApp    App (App.tsx) around the GameScreen: the intro screen, the  *)
(*              start of a session, its teardown and the callbacks of the  *)
(*              torn-down instance.                                        *)
(*   SpecExport the EPUB export (services/epubService.ts): the package     *)
(*              generateEpub builds for a turn sequence and a title.       *)
(*   SpecSpeech the browser-speech fallback of handleAudioPlayback, with   *)
(*              its timer on a clock.                                      *)
(*   SpecIntro  the IntroScreen component (components/IntroScreen.tsx)     *)
(*              under App: the settings form and the start attempt.        *)
(*   SpecReject Spec, with text calls that may reject.                     *)
(*                                                                         *)
(* Every await of the source is a suspension point: the part of a handler  *)
(* before it and the part after it are separate actions, and the requests  *)
(* in flight are state.  Scheduling is the browser's event loop: a user    *)
(* event, a timer, a network reply or a media event is a task, and a task  *)
(* starts only when no microtask is pending.  The await inside             *)
(* playAudioFromBase64 waits for decodePCM, which does no asynchronous     *)
(* work, so its continuation is a microtask.                               *)
(***************************************************************************)
EXTENDS Integers, Sequences, FiniteSets, TLC

\* ------------------------------------------------------------------ bounds
\* longest turn sequence explored
MaxTurns == 3
\* AudioBufferSourceNodes created during one session
MaxSources == 3
\* pending setTimeout callbacks of the browser-speech fallback
MaxTimers == 1
\* clicks on a Narrate button during one session
MaxClicks == 1

\* longest payload (in tokens) a free text provider answers with
MaxPayload == 2
\* pieces of a configured model name
MaxName == 2
\* pieces of a turn text or title handed to the export
MaxText == 1
\* longest turn sequence exported
MaxExportTurns == 3
\* longest text spoken by the browser fallback, in characters
MaxChars == 101
\* step of the clock, in milliseconds
TickMs == 500
\* longest API key typed into the settings form, in characters
MaxKey == 2

\* texts a provider may answer with, and texts the player may type
ReplyTexts == {"r1"}
ActionTexts == {"a1"}
\* the blank input handleAction refuses
Blank == ""
\* the fixed directive of startNewEpisode
BeginDirective ==
  "Begin the episode. Set the scene and introduce the protagonist (the player) into a world where logic is twisted."
\* SYSTEM_INSTRUCTION
SystemInstruction == "SYSTEM_INSTRUCTION"

\* lastSubmit when the last step was not a submit
NoSubmit == "-"

\* lastReply when the last step was not the arrival of a text reply
NoReply == [text |-> "-", ended |-> FALSE]

NoSource == 0
NoAsset == 0

VARIABLES
  pc,              \* GameScreen: "absent" while App renders none,
                   \* "unmounted" until the mount effect has run, then
                   \* "mounted", "torndown" once React has unmounted it
  settings,        \* props.settings (fixed for the component's lifetime)
  history,         \* useState<StoryMessage[]>
  isLoading,       \* useState(false)
  isImageLoading,  \* useState(false)
  isPlayingAudio,  \* useState(false)
  autoNarrate,     \* useState(true)
  isEnded,         \* useState(false)
  audioSourceRef,  \* useRef<AudioBufferSourceNode | null>
  textReqs,        \* startNewEpisode / continueStory calls in flight
  assetReqs,       \* generateSceneImage / generateNarrationAudio calls
                   \* issued by handleGenerateAssets and still in flight
  clickReqs,       \* generateNarrationAudio calls of handlePlayClick in
                   \* flight: number per clicked turn
  clicks,          \* Narrate clicks so far
  sources,         \* every AudioBufferSourceNode: its playback state
  speaking,        \* window.speechSynthesis is speaking
  timers,          \* pending setTimeout(() => setIsPlayingAudio(false))
  lastSubmit,      \* the input of the submit (handleAction) that ran in the
                   \* last step, accepted or not; NoSubmit after any other
                   \* step
  lastReply,       \* the {text, ended} a text call resolved with in the last
                   \* step; NoReply after any other step
  chain,           \* state of the fallback chains (SpecChain)
  call,            \* state of the provider adapters (SpecProvider)
  app,             \* App: gameState and settings (SpecApp)
  epub,            \* state of generateEpub (SpecExport)
  intro,           \* IntroScreen and the settings it edits (SpecIntro)
  speech           \* one browser-speech playback against the clock
                   \* (SpecSpeech)

vars == <<pc, settings, history, isLoading, isImageLoading,
          isPlayingAudio, autoNarrate, isEnded, audioSourceRef, textReqs,
          assetReqs, clickReqs, clicks, sources, speaking, timers, lastSubmit,
          lastReply, chain, call, app, epub, intro, speech>>

sessionVars == <<pc, settings, history, isLoading, isImageLoading,
                 isPlayingAudio, autoNarrate, isEnded, audioSourceRef,
                 textReqs, assetReqs, clickReqs, clicks, sources, speaking,
                 timers, lastSubmit, lastReply>>

SourceIds == 1..MaxSources
TurnIds == 1..MaxTurns

\* ------------------------------------------------------------ StoryMessage
\* image / audio hold NoAsset or the artifact; an artifact is identified by
\* the position of the turn whose text it was generated from.
StoryMessage(role, text) ==
  [role |-> role, text |-> text, image |-> NoAsset, audio |-> NoAsset]

\* --------------------------------------------------- audio playback state
\* The audio handlers call each other synchronously, so they are operators
\* on the record of everything they touch.
Audio ==
  [sources |-> sources, ref |-> audioSourceRef, speaking |-> speaking,
   playing |-> isPlayingAudio, timers |-> timers]

Allocated(srcs) == {s \in SourceIds : srcs[s] # "unused"}
Live(srcs) == {s \in SourceIds : srcs[s] = "playing"}

\* A node is "unused" (not created), "decoding" (playAudioFromBase64 is at its
\* await), "playing" (started, sounding), "ended" (silent because it was
\* stopped or reached the end of its buffer; its ended event is queued) or
\* "done" (the ended event was delivered, or the decode failed).
\*
\* AudioBufferSourceNode.stop(): a playing node stops sounding and its ended
\* event is queued; on any other node it throws or does nothing (caught).
StopNode(srcs, s) ==
  IF srcs[s] = "playing" THEN [srcs EXCEPT ![s] = "ended"] ELSE srcs

stopAudio(a) ==
  [a EXCEPT
     !.sources = IF a.ref # NoSource THEN StopNode(a.sources, a.ref)
                 ELSE a.sources,
     !.ref = NoSource,
     !.speaking = FALSE,
     !.playing = FALSE]

\* playManagedAudio up to its await: the node is created by
\* playAudioFromBase64 only after the decode, so here it is "decoding".
CanDecode(a) == Cardinality(Allocated(a.sources)) < MaxSources
NextSource(a) == Cardinality(Allocated(a.sources)) + 1

playManagedAudio(a) ==
  LET b == stopAudio(a)
  IN [b EXCEPT !.playing = TRUE,
               !.sources = [b.sources EXCEPT ![NextSource(b)] = "decoding"]]

\* playBrowserAudio: cancel what is being spoken, speak the text.
playBrowserAudio(a) == [a EXCEPT !.speaking = TRUE]

CanPlay(a, hasAudio) ==
  IF hasAudio THEN CanDecode(a) ELSE a.timers < MaxTimers

handleAudioPlayback(a, hasAudio) ==
  LET b == [stopAudio(a) EXCEPT !.playing = TRUE]
  IN IF hasAudio
       THEN playManagedAudio(b)
       ELSE [playBrowserAudio(b) EXCEPT !.timers = b.timers + 1]

\* No continuation of playAudioFromBase64 is queued: the next task may start.
MicrotasksDrained == \A s \in SourceIds : sources[s] # "decoding"

SetAudio(a) ==
  /\ sources' = a.sources
  /\ audioSourceRef' = a.ref
  /\ speaking' = a.speaking
  /\ isPlayingAudio' = a.playing
  /\ timers' = a.timers

\* ------------------------------------------------------------ back-fill
\* (the last message rebuilt from role and text, the other asset dropped)
updateLastMessageAsset_Overwrites(h, type, data) ==
  LET lastIndex == Len(h)
  IN IF lastIndex >= 1 /\ h[lastIndex].role = "model"
       THEN [h EXCEPT ![lastIndex] =
               IF type = "image"
                 THEN [StoryMessage(@.role, @.text) EXCEPT !.image = data]
                 ELSE [StoryMessage(@.role, @.text) EXCEPT !.audio = data]]
       ELSE h

updateLastMessageAsset_DropsText(h, type, data) ==
  LET lastIndex == Len(h)
  IN IF lastIndex >= 1 /\ h[lastIndex].role = "model"
       THEN [h EXCEPT ![lastIndex] =
               IF type = "image"
                 THEN [StoryMessage("model", Blank) EXCEPT !.image = data]
                 ELSE [StoryMessage("model", Blank) EXCEPT !.audio = data]]
       ELSE h

updateLastMessageAsset(h, type, data) ==
  LET lastIndex == Len(h)
  IN IF lastIndex >= 1 /\ h[lastIndex].role = "model"
       THEN [h EXCEPT ![lastIndex] =
               IF type = "image" THEN [@ EXCEPT !.image = data]
               ELSE [@ EXCEPT !.audio = data]]
       ELSE h

\* The requests handleGenerateAssets issues for the narrator turn at position
\* turn; auto is the autoNarrate value the audio callback closes over (the
\* image callback does not read it).
handleGenerateAssets(turn, auto) ==
  (IF settings.autoGenerateImage
     THEN {[kind |-> "image", turn |-> turn, auto |-> FALSE]} ELSE {})
  \cup
  (IF settings.autoGenerateAudio
     THEN {[kind |-> "audio", turn |-> turn, auto |-> auto]} ELSE {})

\* ------------------------------------------------- continueStory: request
\* The messages continueStory sends upstream for (history, userAction).
Providers == {"gemini", "external"}

\* The messages startNewEpisode sends upstream (the Gemini branch passes the
\* system instruction in config.systemInstruction, not as a message).
startNewEpisodeMessages(provider) ==
  IF provider = "external"
    THEN <<[role |-> "system", content |-> SystemInstruction],
           [role |-> "user", content |-> BeginDirective]>>
    ELSE <<[role |-> "user", content |-> BeginDirective]>>

continueStoryMessages(provider, h, userAction) ==
  IF provider = "external"
    THEN <<[role |-> "system", content |-> SystemInstruction]>>
         \o (IF Len(h) > 0 /\ h[1].role = "model"
               THEN <<[role |-> "user", content |-> BeginDirective]>>
               ELSE <<>>)
         \o [i \in 1..Len(h) |->
               [role |-> IF h[i].role = "model" THEN "assistant" ELSE "user",
                content |-> IF h[i].text = "" THEN "..." ELSE h[i].text]]
         \o <<[role |-> "user", content |-> userAction]>>
    ELSE [i \in 1..Len(h) |-> [role |-> h[i].role, content |-> h[i].text]]
         \o <<[role |-> "user", content |-> userAction]>>

\* The messages tryPollinationsText sends for (history, lastUserText); its
\* system message is the instruction followed by a format note.
tryPollinationsTextMessages(h, lastUserText) ==
  <<[role |-> "system", content |-> SystemInstruction]>>
  \o [i \in 1..Len(h) |->
        [role |-> IF h[i].role = "model" THEN "assistant" ELSE "user",
         content |-> h[i].text]]
  \o <<[role |-> "user", content |-> lastUserText]>>

\* ------------------------------------------- values of the fallback chains
\* What a candidate function returns: a GameResponse, an image, or undefined.
Undefined == [kind |-> "undefined", text |-> <<>>, ended |-> FALSE]
GameResponse(text, ended) ==
  [kind |-> "response", text |-> text, ended |-> ended]
Image(data) == [kind |-> "image", text |-> data, ended |-> FALSE]

\* chain.fn: the function running; chain.env: the outcome each candidate's
\* exchange will have; chain.issued: the candidates called, in order;
\* chain.returned: what each returned; chain.result: the value the function
\* resolved with once chain.pc = "done".
ChainIdle ==
  [fn |-> "none", pc |-> "idle", env |-> <<>>, issued |-> <<>>,
   returned |-> <<>>, result |-> Undefined]

\* call.fn: the adapter running; call.provider: settings.provider;
\* call.outcome: what the remote exchange will do; call.result: the value the
\* promise resolved with, call.rejected: the promise rejected instead.
\* The outcome of one remote exchange.  kind: how it goes; class: the class of
\* the failure ("auth", "quota", "other") or "none"; msg: the substrings of
\* the error message the code may look for; text / flag: the payload.
Exchange(kind, class, msg, text, flag) ==
  [kind |-> kind, class |-> class, msg |-> msg, text |-> text, flag |-> flag]
NoExchange == Exchange("none", "none", {}, <<>>, FALSE)

\* call.modelName: settings.modelName; call.model: the `model` of the request
\* sent upstream (<<>> while no request was sent).
CallIdle ==
  [fn |-> "none", provider |-> "none", pc |-> "idle", outcome |-> NoExchange,
   result |-> Undefined, rejected |-> FALSE, modelName |-> <<>>,
   model |-> <<>>]

\* ------------------------------------------------------- initial state
Settings ==
  [autoGenerateImage : BOOLEAN, autoGenerateAudio : BOOLEAN]


DEFAULT_SETTINGS == [autoGenerateImage |-> TRUE, autoGenerateAudio |-> TRUE]

\* App while a GameScreen is rendered with the given props.settings
Playing(s) == [gameState |-> "PLAYING", settings |-> s]

\* generateEpub is not running
EpubIdle ==
  [pc |-> "idle", history |-> <<>>, title |-> <<>>, entries |-> <<>>,
   saved |-> FALSE]

\* IntroScreen is not rendered
IntroIdle == [pc |-> "absent"]

\* no browser-speech playback is timed
SpeechIdle ==
  [pc |-> "idle", length |-> 0, delay |-> 0, elapsed |-> 0,
   timer |-> FALSE, synth |-> FALSE, isPlayingAudio |-> FALSE]

\* The state of a freshly constructed GameScreen, and of the audio devices.
InitScreen ==
  /\ history = <<>>
  /\ isLoading = FALSE
  /\ isImageLoading = FALSE
  /\ isPlayingAudio = FALSE
  /\ autoNarrate = TRUE
  /\ isEnded = FALSE
  /\ audioSourceRef = NoSource
  /\ textReqs = {}
  /\ assetReqs = {}
  /\ clickReqs = [i \in TurnIds |-> 0]
  /\ clicks = 0
  /\ sources = [s \in SourceIds |-> "unused"]
  /\ speaking = FALSE
  /\ timers = 0
  /\ lastSubmit = NoSubmit
  /\ lastReply = NoReply

InitSession ==
  /\ pc = "unmounted"
  /\ settings \in Settings
  /\ InitScreen

Init ==
  /\ InitSession
  /\ chain = ChainIdle
  /\ call = CallIdle
  /\ app = Playing(settings)
  /\ epub = EpubIdle
  /\ intro = IntroIdle
  /\ speech = SpeechIdle

\* ------------------------------------------------------------- initGame
InitGame_NoLoadingFlag ==
  /\ MicrotasksDrained
  /\ pc = "unmounted"
  /\ pc' = "mounted"
  /\ SetAudio(stopAudio(Audio))
  /\ textReqs' = textReqs \cup
       {[kind |-> "start", history |-> <<>>, action |-> BeginDirective,
         auto |-> autoNarrate]}
  /\ lastSubmit' = NoSubmit
  /\ lastReply' = NoReply
  /\ UNCHANGED <<settings, history, isLoading, isImageLoading, autoNarrate,
                 isEnded, assetReqs, clickReqs, clicks, chain, call, app, epub, intro, speech>>

\* The mount effect up to `await startNewEpisode(settings)`.
InitGame ==
  /\ MicrotasksDrained
  /\ pc = "unmounted"
  /\ pc' = "mounted"
  /\ SetAudio(stopAudio(Audio))
  /\ isLoading' = TRUE
  /\ textReqs' = textReqs \cup
       {[kind |-> "start", history |-> <<>>, action |-> BeginDirective,
         auto |-> autoNarrate]}
  /\ lastSubmit' = NoSubmit
  /\ lastReply' = NoReply
  /\ UNCHANGED <<settings, history, isImageLoading, autoNarrate, isEnded,
                 assetReqs, clickReqs, clicks, chain, call, app, epub, intro, speech>>

\* (the ended flag of the start reply dropped)
InitGameReply_IgnoresEnded(r, text, ended) ==
  /\ MicrotasksDrained
  /\ r \in textReqs
  /\ r.kind = "start"
  /\ textReqs' = textReqs \ {r}
  /\ history' = <<StoryMessage("model", text)>>
  /\ isEnded' = isEnded
  /\ assetReqs' = assetReqs \cup handleGenerateAssets(1, r.auto)
  /\ isImageLoading' = (IF settings.autoGenerateImage THEN TRUE
                        ELSE isImageLoading)
  /\ isLoading' = FALSE
  /\ lastSubmit' = NoSubmit
  /\ lastReply' = [text |-> text, ended |-> ended]
  /\ UNCHANGED <<pc, settings, isPlayingAudio, autoNarrate, audioSourceRef,
                 clickReqs, clicks, sources, speaking, timers, chain, call, app, epub, intro, speech>>

\* initGame after the await: the reply {text, ended} has arrived.
InitGameReply(r, text, ended) ==
  /\ MicrotasksDrained
  /\ pc = "mounted"
  /\ r \in textReqs
  /\ r.kind = "start"
  /\ textReqs' = textReqs \ {r}
  /\ history' = <<StoryMessage("model", text)>>
  /\ isEnded' = (IF ended THEN TRUE ELSE isEnded)
  /\ assetReqs' = assetReqs \cup handleGenerateAssets(1, r.auto)
  /\ isImageLoading' = (IF settings.autoGenerateImage THEN TRUE
                        ELSE isImageLoading)
  /\ isLoading' = FALSE
  /\ lastSubmit' = NoSubmit
  /\ lastReply' = [text |-> text, ended |-> ended]
  /\ UNCHANGED <<pc, settings, isPlayingAudio, autoNarrate, audioSourceRef,
                 clickReqs, clicks, sources, speaking, timers, chain, call, app, epub, intro, speech>>

\* ---------------------------------------------------------- handleAction
\* The submit handler up to `await continueStory(history, action, settings)`.
\* history is the value of the render the handler belongs to: the state
\* before the protagonist turn is appended.
HandleActionAccepts_NoLoadingGuard(input) == ~(input = Blank \/ isEnded)

HandleActionAccepts_NoEndedGuard(input) == ~(input = Blank \/ isLoading)

HandleActionAccepts(input) == ~(input = Blank \/ isLoading \/ isEnded)

HandleAction(input) ==
  /\ MicrotasksDrained
  /\ pc = "mounted"
  /\ lastSubmit' = input
  /\ lastReply' = NoReply
  /\ IF ~HandleActionAccepts(input)
       THEN UNCHANGED <<pc, settings, history, isLoading, isImageLoading,
                        isPlayingAudio, autoNarrate, isEnded, audioSourceRef,
                        textReqs, assetReqs, clickReqs, clicks, sources, speaking,
                        timers, chain, call, app, epub, intro, speech>>
       ELSE /\ Len(history) + 2 <= MaxTurns
            /\ SetAudio(stopAudio(Audio))
            /\ isLoading' = TRUE
            /\ history' = Append(history, StoryMessage("user", input))
            /\ textReqs' = textReqs \cup
                 {[kind |-> "action", history |-> history, action |-> input,
                   auto |-> autoNarrate]}
            /\ UNCHANGED <<pc, settings, isImageLoading, autoNarrate,
                           isEnded, assetReqs, clickReqs, clicks, chain, call, app, epub, intro, speech>>

\* (setHistory([...history, aiMsg]) with the history of the submitting render)
HandleActionReply_StaleHistory(r, text, ended) ==
  /\ MicrotasksDrained
  /\ r \in textReqs
  /\ r.kind = "action"
  /\ textReqs' = textReqs \ {r}
  /\ history' = Append(r.history, StoryMessage("model", text))
  /\ IF ended
       THEN /\ isEnded' = TRUE
            /\ UNCHANGED <<assetReqs, isImageLoading>>
       ELSE /\ isEnded' = isEnded
            /\ assetReqs' = assetReqs \cup
                 handleGenerateAssets(Len(history) + 1, r.auto)
            /\ isImageLoading' = (IF settings.autoGenerateImage THEN TRUE
                                  ELSE isImageLoading)
  /\ isLoading' = FALSE
  /\ lastSubmit' = NoSubmit
  /\ lastReply' = [text |-> text, ended |-> ended]
  /\ UNCHANGED <<pc, settings, isPlayingAudio, autoNarrate, audioSourceRef,
                 clickReqs, clicks, sources, speaking, timers, chain, call, app, epub, intro, speech>>

\* (setIsEnded(ended) instead of `if (ended) setIsEnded(true)`)
HandleActionReply_SetsEnded(r, text, ended) ==
  /\ MicrotasksDrained
  /\ r \in textReqs
  /\ r.kind = "action"
  /\ textReqs' = textReqs \ {r}
  /\ history' = Append(history, StoryMessage("model", text))
  /\ isEnded' = ended
  /\ IF ended
       THEN UNCHANGED <<assetReqs, isImageLoading>>
       ELSE /\ assetReqs' = assetReqs \cup
                 handleGenerateAssets(Len(history) + 1, r.auto)
            /\ isImageLoading' = (IF settings.autoGenerateImage THEN TRUE
                                  ELSE isImageLoading)
  /\ isLoading' = FALSE
  /\ lastSubmit' = NoSubmit
  /\ lastReply' = [text |-> text, ended |-> ended]
  /\ UNCHANGED <<pc, settings, isPlayingAudio, autoNarrate, audioSourceRef,
                 clickReqs, clicks, sources, speaking, timers, chain, call, app, epub, intro, speech>>

\* handleAction after the await.
HandleActionReply(r, text, ended) ==
  /\ MicrotasksDrained
  /\ pc = "mounted"
  /\ r \in textReqs
  /\ r.kind = "action"
  /\ textReqs' = textReqs \ {r}
  /\ history' = Append(history, StoryMessage("model", text))
  /\ IF ended
       THEN /\ isEnded' = TRUE
            /\ UNCHANGED <<assetReqs, isImageLoading>>
       ELSE /\ isEnded' = isEnded
            /\ assetReqs' = assetReqs \cup
                 handleGenerateAssets(Len(history) + 1, r.auto)
            /\ isImageLoading' = (IF settings.autoGenerateImage THEN TRUE
                                  ELSE isImageLoading)
  /\ isLoading' = FALSE
  /\ lastSubmit' = NoSubmit
  /\ lastReply' = [text |-> text, ended |-> ended]
  /\ UNCHANGED <<pc, settings, isPlayingAudio, autoNarrate, audioSourceRef,
                 clickReqs, clicks, sources, speaking, timers, chain, call, app, epub, intro, speech>>

\* ----------------------------------------------------------- handleAbort
\* The button is rendered while the session is not ended.
HandleAbort ==
  /\ MicrotasksDrained
  /\ pc = "mounted"
  /\ ~isEnded
  /\ SetAudio(stopAudio(Audio))
  /\ isEnded' = TRUE
  /\ lastSubmit' = NoSubmit
  /\ lastReply' = NoReply
  /\ UNCHANGED <<pc, settings, history, isLoading, isImageLoading,
                 autoNarrate, textReqs, assetReqs, clickReqs, clicks, chain, call, app, epub, intro, speech>>

\* the Auto-Play Audio checkbox
ToggleAutoNarrate ==
  /\ MicrotasksDrained
  /\ pc = "mounted"
  /\ settings.autoGenerateAudio
  /\ ~isEnded
  /\ autoNarrate' = ~autoNarrate
  /\ lastSubmit' = NoSubmit
  /\ lastReply' = NoReply
  /\ UNCHANGED <<pc, settings, history, isLoading, isImageLoading,
                 isPlayingAudio, isEnded, audioSourceRef, textReqs,
                 assetReqs, clickReqs, clicks, sources, speaking, timers, chain, call, app, epub, intro, speech>>

\* ------------------------------------------- handleGenerateAssets: .then
\* generateSceneImage resolved with an image (img) or undefined.
ImageResolved(r, img) ==
  /\ MicrotasksDrained
  /\ pc = "mounted"
  /\ r \in assetReqs
  /\ r.kind = "image"
  /\ assetReqs' = assetReqs \ {r}
  /\ isImageLoading' = FALSE
  /\ history' = (IF img THEN updateLastMessageAsset(history, "image", r.turn)
                 ELSE history)
  /\ lastSubmit' = NoSubmit
  /\ lastReply' = NoReply
  /\ UNCHANGED <<pc, settings, isLoading, isPlayingAudio, autoNarrate,
                 isEnded, audioSourceRef, textReqs, clickReqs, clicks, sources,
                 speaking, timers, chain, call, app, epub, intro, speech>>

\* generateNarrationAudio resolved with audio data (audio) or undefined.
AudioResolved(r, audio) ==
  /\ MicrotasksDrained
  /\ pc = "mounted"
  /\ r \in assetReqs
  /\ r.kind = "audio"
  /\ assetReqs' = assetReqs \ {r}
  /\ history' = (IF audio
                   THEN updateLastMessageAsset(history, "audio", r.turn)
                   ELSE history)
  /\ IF r.auto
       THEN /\ CanPlay(Audio, audio)
            /\ SetAudio(handleAudioPlayback(Audio, audio))
       ELSE UNCHANGED <<sources, audioSourceRef, speaking, isPlayingAudio,
                        timers>>
  /\ lastSubmit' = NoSubmit
  /\ lastReply' = NoReply
  /\ UNCHANGED <<pc, settings, isLoading, isImageLoading, autoNarrate,
                 isEnded, textReqs, clickReqs, clicks, chain, call, app, epub, intro, speech>>

\* ------------------------------------------------------- handlePlayClick
\* The Narrate button of narrator turn i (disabled while loading).
HandlePlayClick(i) ==
  /\ MicrotasksDrained
  /\ pc = "mounted"
  /\ i \in 1..Len(history)
  /\ history[i].role = "model"
  /\ ~isLoading
  /\ clicks < MaxClicks
  /\ clicks' = clicks + 1
  /\ IF history[i].audio # NoAsset
       THEN /\ CanPlay(stopAudio(Audio), TRUE)
            /\ SetAudio(handleAudioPlayback(stopAudio(Audio), TRUE))
            /\ UNCHANGED clickReqs
       ELSE /\ SetAudio([stopAudio(Audio) EXCEPT !.playing = TRUE])
            /\ clickReqs' = [clickReqs EXCEPT ![i] = @ + 1]
  /\ lastSubmit' = NoSubmit
  /\ lastReply' = NoReply
  /\ UNCHANGED <<pc, settings, history, isLoading, isImageLoading,
                 autoNarrate, isEnded, textReqs, assetReqs, chain, call, app, epub, intro, speech>>

\* handlePlayClick after `await generateNarrationAudio(msg.text, ...)`.
PlayClickResolved(i, audio) ==
  /\ MicrotasksDrained
  /\ pc = "mounted"
  /\ clickReqs[i] > 0
  /\ clickReqs' = [clickReqs EXCEPT ![i] = @ - 1]
  /\ UNCHANGED clicks
  /\ history' = (IF audio THEN updateLastMessageAsset(history, "audio", i)
                 ELSE history)
  /\ CanPlay(Audio, audio)
  /\ SetAudio(handleAudioPlayback(Audio, audio))
  /\ lastSubmit' = NoSubmit
  /\ lastReply' = NoReply
  /\ UNCHANGED <<pc, settings, isLoading, isImageLoading, autoNarrate,
                 isEnded, textReqs, assetReqs, chain, call, app, epub, intro, speech>>

\* ------------------------------------- playManagedAudio after its await
\* playAudioFromBase64 resumes after the decode: it starts the node and
\* returns it (ok), or it threw and returns undefined.
PlayManagedAudioResumes(s, ok) ==
  /\ sources[s] = "decoding"
  /\ IF ok
       THEN /\ sources' = [sources EXCEPT ![s] = "playing"]
            /\ audioSourceRef' = s
            /\ UNCHANGED isPlayingAudio
       ELSE /\ sources' = [sources EXCEPT ![s] = "done"]
            /\ isPlayingAudio' = FALSE
            /\ UNCHANGED audioSourceRef
  /\ lastSubmit' = NoSubmit
  /\ lastReply' = NoReply
  /\ UNCHANGED <<pc, settings, history, isLoading, isImageLoading,
                 autoNarrate, isEnded, textReqs, assetReqs, clickReqs, clicks,
                 speaking, timers, chain, call, app, epub, intro, speech>>

\* A playing node reaches the end of its buffer: it falls silent and its
\* ended event is queued.
SourceFinishes(s) ==
  /\ MicrotasksDrained
  /\ sources[s] = "playing"
  /\ sources' = [sources EXCEPT ![s] = "ended"]
  /\ lastSubmit' = NoSubmit
  /\ lastReply' = NoReply
  /\ UNCHANGED <<pc, settings, history, isLoading, isImageLoading,
                 isPlayingAudio, autoNarrate, isEnded, audioSourceRef,
                 textReqs, assetReqs, clickReqs, clicks, speaking, timers, chain, call, app, epub, intro, speech>>

\* source.onended: the ended event of a node that finished or was stopped is
\* delivered.
SourceOnEnded(s) ==
  /\ MicrotasksDrained
  /\ sources[s] = "ended"
  /\ sources' = [sources EXCEPT ![s] = "done"]
  /\ isPlayingAudio' = FALSE
  /\ audioSourceRef' = NoSource
  /\ lastSubmit' = NoSubmit
  /\ lastReply' = NoReply
  /\ UNCHANGED <<pc, settings, history, isLoading, isImageLoading,
                 autoNarrate, isEnded, textReqs, assetReqs, clickReqs, clicks,
                 speaking, timers, chain, call, app, epub, intro, speech>>

\* The utterance of the browser fallback is spoken to its end.
SpeechFinishes ==
  /\ MicrotasksDrained
  /\ speaking
  /\ speaking' = FALSE
  /\ lastSubmit' = NoSubmit
  /\ lastReply' = NoReply
  /\ UNCHANGED <<pc, settings, history, isLoading, isImageLoading,
                 isPlayingAudio, autoNarrate, isEnded, audioSourceRef,
                 textReqs, assetReqs, clickReqs, clicks, sources, timers, chain, call, app, epub, intro, speech>>

\* setTimeout(() => setIsPlayingAudio(false), ...) of handleAudioPlayback.
TimerFires ==
  /\ MicrotasksDrained
  /\ timers > 0
  /\ timers' = timers - 1
  /\ isPlayingAudio' = FALSE
  /\ lastSubmit' = NoSubmit
  /\ lastReply' = NoReply
  /\ UNCHANGED <<pc, settings, history, isLoading, isImageLoading,
                 autoNarrate, isEnded, audioSourceRef, textReqs, assetReqs,
                 clickReqs, clicks, sources, speaking, chain, call, app, epub, intro, speech>>

Next ==
  \/ InitGame
  \/ \E r \in textReqs, text \in ReplyTexts, ended \in BOOLEAN :
       InitGameReply(r, text, ended)
  \/ \E input \in ActionTexts \cup {Blank} : HandleAction(input)
  \/ \E r \in textReqs, text \in ReplyTexts, ended \in BOOLEAN :
       HandleActionReply(r, text, ended)
  \/ HandleAbort
  \/ ToggleAutoNarrate
  \/ \E r \in assetReqs, img \in BOOLEAN : ImageResolved(r, img)
  \/ \E r \in assetReqs, audio \in BOOLEAN : AudioResolved(r, audio)
  \/ \E i \in TurnIds : HandlePlayClick(i)
  \/ \E i \in TurnIds, audio \in BOOLEAN : PlayClickResolved(i, audio)
  \/ \E s \in SourceIds, ok \in BOOLEAN : PlayManagedAudioResumes(s, ok)
  \/ \E s \in SourceIds : SourceFinishes(s)
  \/ \E s \in SourceIds : SourceOnEnded(s)
  \/ SpeechFinishes
  \/ TimerFires

Spec == Init /\ [][Next]_vars

\* ======================================================= rejected text calls
\* startNewEpisode and continueStory build their client before their `try`
\* (getAI, geminiService.ts lines 145 and 181), so the promise they return can
\* reject.  initGame and handleAction await it with no try / catch / finally:
\* on a rejection the rest of the async function (setHistory,
\* handleGenerateAssets, setIsLoading(false)) is skipped.
InitGameRejected(r) ==
  /\ MicrotasksDrained
  /\ pc = "mounted"
  /\ r \in textReqs
  /\ r.kind = "start"
  /\ textReqs' = textReqs \ {r}
  /\ lastSubmit' = NoSubmit
  /\ lastReply' = NoReply
  /\ UNCHANGED <<pc, settings, history, isLoading, isImageLoading,
                 isPlayingAudio, autoNarrate, isEnded, audioSourceRef,
                 assetReqs, clickReqs, clicks, sources, speaking, timers,
                 chain, call, app, epub, intro, speech>>

HandleActionRejected(r) ==
  /\ MicrotasksDrained
  /\ pc = "mounted"
  /\ r \in textReqs
  /\ r.kind = "action"
  /\ textReqs' = textReqs \ {r}
  /\ lastSubmit' = NoSubmit
  /\ lastReply' = NoReply
  /\ UNCHANGED <<pc, settings, history, isLoading, isImageLoading,
                 isPlayingAudio, autoNarrate, isEnded, audioSourceRef,
                 assetReqs, clickReqs, clicks, sources, speaking, timers,
                 chain, call, app, epub, intro, speech>>

NextReject ==
  \/ \E r \in textReqs : InitGameRejected(r)
  \/ \E r \in textReqs : HandleActionRejected(r)
  \/ Next

SpecReject == Init /\ [][NextReject]_vars

\* ================================================================== App
\* App renders IntroScreen while gameState = INTRO and GameScreen while
\* gameState = PLAYING.  One GameScreen instance is followed from the intro
\* screen through its teardown and the callbacks that outlive it.

\* handleSettingsChange, reached through IntroScreen's onSettingsChange:
\* IntroScreen is rendered in INTRO only.
HandleSettingsChange_AnyScreen(s) ==
  /\ app' = [app EXCEPT !.settings = s]
  /\ lastSubmit' = NoSubmit
  /\ lastReply' = NoReply
  /\ UNCHANGED <<pc, settings, history, isLoading, isImageLoading,
                 isPlayingAudio, autoNarrate, isEnded, audioSourceRef,
                 textReqs, assetReqs, clickReqs, clicks, sources, speaking,
                 timers, chain, call, epub, intro, speech>>

HandleSettingsChange(s) ==
  /\ app.gameState = "INTRO"
  /\ app' = [app EXCEPT !.settings = s]
  /\ lastSubmit' = NoSubmit
  /\ lastReply' = NoReply
  /\ UNCHANGED <<pc, settings, history, isLoading, isImageLoading,
                 isPlayingAudio, autoNarrate, isEnded, audioSourceRef,
                 textReqs, assetReqs, clickReqs, clicks, sources, speaking,
                 timers, chain, call, epub, intro, speech>>

\* onStart: setGameState(PLAYING); GameScreen is rendered with the settings
\* App holds at that moment.
OnStart ==
  /\ app.gameState = "INTRO"
  /\ pc = "absent"
  /\ app' = [app EXCEPT !.gameState = "PLAYING"]
  /\ pc' = "unmounted"
  /\ settings' = app.settings
  /\ lastSubmit' = NoSubmit
  /\ lastReply' = NoReply
  /\ UNCHANGED <<history, isLoading, isImageLoading, isPlayingAudio,
                 autoNarrate, isEnded, audioSourceRef, textReqs, assetReqs,
                 clickReqs, clicks, sources, speaking, timers, chain, call,
                 epub, intro, speech>>

\* A state setter called after the unmount does nothing.
Unmounted(a) == [a EXCEPT !.playing = FALSE]

\* cleanup of the mount effect: stopAudio() on unmount
Cleanup(a) == Unmounted(stopAudio(a))

\* onRestart ("Start New Episode", rendered once the episode has ended):
\* setGameState(INTRO) unmounts GameScreen, React runs the effect cleanup and
\* drops the component's state.  Requests in flight, audio nodes and timers
\* are untouched, and so are the closures their callbacks hold.
OnRestart ==
  /\ MicrotasksDrained
  /\ app.gameState = "PLAYING"
  /\ pc = "mounted"
  /\ isEnded
  /\ app' = [app EXCEPT !.gameState = "INTRO"]
  /\ pc' = "torndown"
  /\ SetAudio(Cleanup(Audio))
  /\ history' = <<>>
  /\ isLoading' = FALSE
  /\ isImageLoading' = FALSE
  /\ autoNarrate' = TRUE
  /\ isEnded' = FALSE
  /\ lastSubmit' = NoSubmit
  /\ lastReply' = NoReply
  /\ UNCHANGED <<settings, textReqs, assetReqs, clickReqs, clicks, chain,
                 call, epub, intro, speech>>

\* initGame / handleAction resume after the unmount: the setters do nothing,
\* handleGenerateAssets(text) still issues its requests (initGame always,
\* handleAction unless the reply ended the episode).
StaleTextReply(r, ended) ==
  /\ MicrotasksDrained
  /\ pc = "torndown"
  /\ r \in textReqs
  /\ textReqs' = textReqs \ {r}
  /\ assetReqs' = assetReqs \cup
       (IF r.kind = "start" THEN handleGenerateAssets(1, r.auto)
        ELSE IF ended THEN {}
        ELSE handleGenerateAssets(Len(r.history) + 2, r.auto))
  /\ lastSubmit' = NoSubmit
  /\ lastReply' = NoReply
  /\ UNCHANGED <<pc, settings, history, isLoading, isImageLoading,
                 isPlayingAudio, autoNarrate, isEnded, audioSourceRef,
                 clickReqs, clicks, sources, speaking, timers, chain, call,
                 app, epub, intro, speech>>

\* generateSceneImage(...).then after the unmount: only setters
StaleImageResolved(r) ==
  /\ MicrotasksDrained
  /\ pc = "torndown"
  /\ r \in assetReqs
  /\ r.kind = "image"
  /\ assetReqs' = assetReqs \ {r}
  /\ lastSubmit' = NoSubmit
  /\ lastReply' = NoReply
  /\ UNCHANGED <<pc, settings, history, isLoading, isImageLoading,
                 isPlayingAudio, autoNarrate, isEnded, audioSourceRef,
                 textReqs, clickReqs, clicks, sources, speaking, timers,
                 chain, call, app, epub, intro, speech>>

\* generateNarrationAudio(...).then of handleGenerateAssets after the
\* unmount: updateLastMessageAsset does nothing, handleAudioPlayback runs.
StaleAudioResolved(r, audio) ==
  /\ MicrotasksDrained
  /\ pc = "torndown"
  /\ r \in assetReqs
  /\ r.kind = "audio"
  /\ assetReqs' = assetReqs \ {r}
  /\ IF r.auto
       THEN /\ CanPlay(Audio, audio)
            /\ SetAudio(Unmounted(handleAudioPlayback(Audio, audio)))
       ELSE UNCHANGED <<sources, audioSourceRef, speaking, isPlayingAudio,
                        timers>>
  /\ lastSubmit' = NoSubmit
  /\ lastReply' = NoReply
  /\ UNCHANGED <<pc, settings, history, isLoading, isImageLoading,
                 autoNarrate, isEnded, textReqs, clickReqs, clicks, chain,
                 call, app, epub, intro, speech>>

\* handlePlayClick resumes after the unmount
StalePlayClickResolved(i, audio) ==
  /\ MicrotasksDrained
  /\ pc = "torndown"
  /\ clickReqs[i] > 0
  /\ clickReqs' = [clickReqs EXCEPT ![i] = @ - 1]
  /\ CanPlay(Audio, audio)
  /\ SetAudio(Unmounted(handleAudioPlayback(Audio, audio)))
  /\ lastSubmit' = NoSubmit
  /\ lastReply' = NoReply
  /\ UNCHANGED <<pc, settings, history, isLoading, isImageLoading,
                 autoNarrate, isEnded, textReqs, assetReqs, clicks, chain,
                 call, app, epub, intro, speech>>

\* App starts in INTRO with the saved settings, or DEFAULT_SETTINGS when
\* nothing is saved; no GameScreen exists yet.
InitApp ==
  /\ pc = "absent"
  /\ app \in [gameState : {"INTRO"}, settings : Settings]
  /\ settings = DEFAULT_SETTINGS
  /\ InitScreen
  /\ chain = ChainIdle
  /\ call = CallIdle
  /\ epub = EpubIdle
  /\ intro = IntroIdle
  /\ speech = SpeechIdle

NextApp ==
  \/ \E s \in Settings : HandleSettingsChange(s)
  \/ OnStart
  \/ OnRestart
  \/ \E r \in textReqs, ended \in BOOLEAN : StaleTextReply(r, ended)
  \/ \E r \in assetReqs : StaleImageResolved(r)
  \/ \E r \in assetReqs, audio \in BOOLEAN : StaleAudioResolved(r, audio)
  \/ \E i \in TurnIds, audio \in BOOLEAN : StalePlayClickResolved(i, audio)
  \/ Next

SpecApp == InitApp /\ [][NextApp]_vars

\* ================================================== the free fallback chains
\* A text is a sequence of tokens; what the code looks for in a text (the end
\* markers, the [JSON] tag, white space) is a token of its own.
Tokens == {"Once", " ", "[THE_END]", "[the_end]", "[JSON]", "The End.",
           "GAME OVER"}

RECURSIVE TextsUpTo(_)
TextsUpTo(n) ==
  IF n = 0 THEN {<<>>}
  ELSE LET shorter == TextsUpTo(n - 1)
       IN shorter \cup {Append(t, tok) : t \in shorter, tok \in Tokens}

Payloads == TextsUpTo(MaxPayload)

\* String.prototype.toLowerCase, token by token
toLowerCase(tok) ==
  CASE tok = "[THE_END]" -> "[the_end]"
    [] tok = "The End." -> "the end."
    [] tok = "GAME OVER" -> "game over"
    [] tok = "[JSON]" -> "[json]"
    [] tok = "Once" -> "once"
    [] OTHER -> tok

checkEnded(text) ==
  \E i \in 1..Len(text) :
    toLowerCase(text[i]) \in {"[the_end]", "the end.", "game over"}

\* String.prototype.trim
RECURSIVE trim(_)
trim(text) ==
  IF text = <<>> THEN text
  ELSE IF Head(text) = " " THEN trim(Tail(text))
  ELSE IF text[Len(text)] = " " THEN trim(SubSeq(text, 1, Len(text) - 1))
  ELSE text

IsTag(tok) == tok \in {"[THE_END]", "[JSON]"}

cleanResponse(text) ==
  LET Keep(tok) == ~IsTag(tok) IN trim(SelectSeq(text, Keep))

\* `if (x)` on a returned value: a string is truthy unless empty, an object
\* always, undefined never.
Truthy(v) ==
  CASE v.kind = "undefined" -> FALSE
    [] v.kind = "image" -> v.text # <<>>
    [] OTHER -> TRUE

\* The outcome of one HTTP exchange: the fetch rejects ("neterr"), answers with
\* a status outside 2xx ("non2xx"), answers 2xx with a body that does not
\* parse as JSON ("badjson"), or answers 2xx with a body ("ok").  The body is
\* the text of the answer, the `output` / `output_url` field of a JSON answer
\* (<<>> when it is missing or empty), or the bytes of an image.
Outcome(status, body) == [status |-> status, body |-> body]
FailedOutcomes ==
  {Outcome(st, <<>>) : st \in {"neterr", "non2xx", "badjson"}}
TextOutcomes == FailedOutcomes \cup {Outcome("ok", b) : b \in Payloads}
ImageOutcomes ==
  FailedOutcomes \cup {Outcome("ok", b) : b \in {<<>>, <<"bytes">>}}

tryPollinationsText(o) ==
  IF o.status # "ok" THEN Undefined
  ELSE IF o.body = <<>> THEN Undefined
  ELSE GameResponse(cleanResponse(o.body), checkEnded(o.body))

tryDeepAIText(o) ==
  IF o.status # "ok" THEN Undefined
  ELSE GameResponse(cleanResponse(o.body), checkEnded(o.body))

\* data.output_url: undefined when the field is missing
tryDeepAI(o) ==
  IF o.status # "ok" THEN Undefined
  ELSE IF o.body = <<>> THEN Undefined
  ELSE Image(<<"url">>)

\* the data URL of the fetched blob
tryPollinations(o) ==
  IF o.status # "ok" THEN Undefined
  ELSE Image(<<"data:">> \o o.body)

\* the literal generateFreeText returns when both candidates returned undefined
AllFailedText ==
  GameResponse(<<"The signal is lost in the static...">>, FALSE)

TextCandidates == <<"pollinations", "deepai">>
ImageCandidates == <<"deepai", "pollinations">>

Order(fn) == IF fn = "text" THEN TextCandidates ELSE ImageCandidates

Returns(c, cand, value) ==
  [c EXCEPT !.returned = Append(@, [cand |-> cand, ret |-> value])]

Issue(c, cand) == [c EXCEPT !.issued = Append(@, cand), !.pc = cand]

Done(c, value) == [c EXCEPT !.pc = "done", !.result = value]

\* generateFreeText up to the await of tryPollinationsText's fetch
GenerateFreeText(pollinations, deepai) ==
  /\ chain.pc = "idle"
  /\ chain' = Issue([ChainIdle EXCEPT
                       !.fn = "text",
                       !.env = <<pollinations, deepai>>], "pollinations")
  /\ UNCHANGED <<sessionVars, call, app, epub, intro, speech>>

\* (return pollResult without the `if (pollResult)`)
PollinationsTextReturns_NoFallback ==
  /\ chain.fn = "text"
  /\ chain.pc = "pollinations"
  /\ LET pollResult == tryPollinationsText(chain.env[1])
     IN chain' = Done(Returns(chain, "pollinations", pollResult), pollResult)
  /\ UNCHANGED <<sessionVars, call, app, epub, intro, speech>>

\* tryPollinationsText returns; on undefined tryDeepAIText is called
PollinationsTextReturns ==
  /\ chain.fn = "text"
  /\ chain.pc = "pollinations"
  /\ LET pollResult == tryPollinationsText(chain.env[1])
         c == Returns(chain, "pollinations", pollResult)
     IN chain' = IF Truthy(pollResult) THEN Done(c, pollResult)
                 ELSE Issue(c, "deepai")
  /\ UNCHANGED <<sessionVars, call, app, epub, intro, speech>>

\* tryDeepAIText returns
DeepAITextReturns ==
  /\ chain.fn = "text"
  /\ chain.pc = "deepai"
  /\ LET deepResult == tryDeepAIText(chain.env[2])
         c == Returns(chain, "deepai", deepResult)
     IN chain' = IF Truthy(deepResult) THEN Done(c, deepResult)
                 ELSE Done(c, AllFailedText)
  /\ UNCHANGED <<sessionVars, call, app, epub, intro, speech>>

\* generateFreeImage up to the await of tryDeepAI's fetch
GenerateFreeImage(deepai, pollinations) ==
  /\ chain.pc = "idle"
  /\ chain' = Issue([ChainIdle EXCEPT
                       !.fn = "image",
                       !.env = <<deepai, pollinations>>], "deepai")
  /\ UNCHANGED <<sessionVars, call, app, epub, intro, speech>>

\* tryDeepAI returns; on a falsy value tryPollinations is called
DeepAIImageReturns ==
  /\ chain.fn = "image"
  /\ chain.pc = "deepai"
  /\ LET deepAiUrl == tryDeepAI(chain.env[1])
         c == Returns(chain, "deepai", deepAiUrl)
     IN chain' = IF Truthy(deepAiUrl) THEN Done(c, deepAiUrl)
                 ELSE Issue(c, "pollinations")
  /\ UNCHANGED <<sessionVars, call, app, epub, intro, speech>>

\* tryPollinations returns and generateFreeImage returns its value
PollinationsImageReturns ==
  /\ chain.fn = "image"
  /\ chain.pc = "pollinations"
  /\ LET value == tryPollinations(chain.env[2])
     IN chain' = Done(Returns(chain, "pollinations", value), value)
  /\ UNCHANGED <<sessionVars, call, app, epub, intro, speech>>

\* The caller has its answer; the next call may start.
ChainReturned ==
  /\ chain.pc = "done"
  /\ chain' = ChainIdle
  /\ UNCHANGED <<sessionVars, call, app, epub, intro, speech>>

InitChain ==
  /\ InitSession
  /\ settings = [autoGenerateImage |-> TRUE, autoGenerateAudio |-> TRUE]
  /\ chain = ChainIdle
  /\ call = CallIdle
  /\ app = Playing(settings)
  /\ epub = EpubIdle
  /\ intro = IntroIdle
  /\ speech = SpeechIdle

NextChain ==
  \/ \E p \in TextOutcomes, d \in TextOutcomes : GenerateFreeText(p, d)
  \/ PollinationsTextReturns
  \/ DeepAITextReturns
  \/ \E d \in ImageOutcomes, p \in ImageOutcomes : GenerateFreeImage(d, p)
  \/ DeepAIImageReturns
  \/ PollinationsImageReturns
  \/ ChainReturned

SpecChain == InitChain /\ [][NextChain]_vars

\* ================================================== the provider adapters
\* String.prototype.includes on an error message
includes(msg, s) == s \in msg

\* ai.models.generateContent rejects (network, HTTP status, blocked content)
GeminiFailures ==
  { Exchange("throws", "auth", {"API_KEY_INVALID"}, <<>>, FALSE),
    Exchange("throws", "auth", {"key not found"}, <<>>, FALSE),
    Exchange("throws", "quota", {"429", "quota", "RESOURCE_EXHAUSTED"},
             <<>>, FALSE),
    Exchange("throws", "other", {"Candidate was blocked"}, <<>>, FALSE),
    Exchange("throws", "other", {"404", "Not Found"}, <<>>, FALSE),
    Exchange("throws", "other", {"500"}, <<>>, FALSE),
    Exchange("throws", "other", {"Failed to fetch"}, <<>>, FALSE) }

\* ... or resolves: response.text is empty, does not parse (JSON.parse throws
\* a SyntaxError), or parses to {narrative, isGameOver}
GeminiOutcomes ==
  GeminiFailures
  \cup { Exchange("notext", "other", {}, <<>>, FALSE),
         Exchange("badjson", "other", {"Unexpected token"}, <<>>, FALSE) }
  \cup { Exchange("json", "none", {}, <<"Once">>, over) : over \in BOOLEAN }

\* fetch of callExternalLLM: rejects, answers outside 2xx, answers 2xx with a
\* body that is not JSON, or with JSON whose choices[0].message.content is
\* text (<<>> when it is missing or empty)
ExternalOutcomes ==
  { Exchange("neterr", "other", {"Failed to fetch"}, <<>>, FALSE),
    Exchange("status", "auth", {"401"}, <<>>, FALSE),
    Exchange("status", "auth", {"403"}, <<>>, FALSE),
    Exchange("status", "quota", {"429"}, <<>>, FALSE),
    Exchange("status", "other", {"404"}, <<>>, FALSE),
    Exchange("status", "other", {"500"}, <<>>, FALSE),
    Exchange("badjson", "other", {"Unexpected token"}, <<>>, FALSE) }
  \cup { Exchange("ok", "none", {}, t, FALSE) : t \in Payloads }

\* generateContent of the image / audio model: rejects, or resolves without
\* or with inlineData
AssetOutcomes ==
  GeminiFailures
  \cup { Exchange("noparts", "other", {}, <<>>, FALSE),
         Exchange("data", "none", {}, <<"base64">>, FALSE) }

handleGeminiError(msg) ==
  LET errorMsg ==
        IF includes(msg, "API_KEY_INVALID") \/ includes(msg, "key not found")
          THEN "Transmission denied. Please verify your API Key in the 'Settings' menu."
        ELSE IF includes(msg, "429") \/ includes(msg, "quota")
                  \/ includes(msg, "RESOURCE_EXHAUSTED")
          THEN "Quota exceeded. Please select a different model (e.g., Gemini 2.5 Flash) in Settings, or wait a moment."
        ELSE IF includes(msg, "Candidate was blocked")
          THEN "The narrative veered into forbidden territory. The censors have cut the feed. Try a different action."
        ELSE IF includes(msg, "404") \/ includes(msg, "Not Found")
          THEN "Model frequency not found. Check your model selection in Settings."
        ELSE "The signal is lost... reality is buffering."
  IN GameResponse(<<errorMsg>>, TRUE)

\* the error caught by callExternalLLM, as the text it interpolates
ExternalErrorMessage(o) ==
  IF o.kind = "status" THEN <<"External API Error: ">> \o
                            <<CHOOSE st \in o.msg : TRUE>>
  ELSE <<CHOOSE m \in o.msg : TRUE>>

callExternalLLM(o) ==
  IF o.kind # "ok"
    THEN GameResponse(
           <<"Transmission failure. The external frequency is jammed. (">>
           \o ExternalErrorMessage(o) \o <<")">>, FALSE)
    ELSE LET rawText ==
               IF o.text = <<>>
                 THEN <<"The signal was received, but the message is blank.">>
                 ELSE o.text
             ended ==
               \E i \in 1..Len(rawText) :
                 \/ rawText[i] = "[THE_END]"
                 \/ toLowerCase(rawText[i]) = "the end."
         IN GameResponse(rawText, ended)

\* what the Gemini branch of startNewEpisode / continueStory returns once
\* generateContent has settled; weak is the literal for an empty response.text
GeminiText(o, weak) ==
  CASE o.kind = "throws" -> handleGeminiError(o.msg)
    [] o.kind = "badjson" -> handleGeminiError(o.msg)
    [] o.kind = "notext" -> GameResponse(<<weak>>, FALSE)
    [] OTHER -> GameResponse(o.text, o.flag)

\* A model name is a sequence of pieces; <<>> is the empty string.
NameParts == {"gemini", "veo", "/", "gpt"}
ModelNames == UNION {[1..n -> NameParts] : n \in 0..MaxName}
DefaultModel == <<"gemini", "-2.5-flash">>
IMAGE_MODEL == <<"gemini", "-2.5-flash-image">>
AUDIO_MODEL == <<"gemini", "-2.5-flash-preview-tts">>

\* String.prototype.startsWith / includes on a model name
startsWith(name, prefix) == Len(name) > 0 /\ name[1] = prefix
includesPart(name, part) == \E i \in 1..Len(name) : name[i] = part

getGeminiModelName_AcceptsSlash(modelName) ==
  IF modelName = <<>> THEN DefaultModel
  ELSE IF ~startsWith(modelName, "gemini") /\ ~startsWith(modelName, "veo")
    THEN DefaultModel
  ELSE modelName

getGeminiModelName(modelName) ==
  IF modelName = <<>> THEN DefaultModel
  ELSE IF \/ includesPart(modelName, "/")
          \/ (~startsWith(modelName, "gemini") /\ ~startsWith(modelName, "veo"))
    THEN DefaultModel
  ELSE modelName

\* `new GoogleGenAI(...)` in getAI is evaluated before the try block: when the
\* constructor throws (constructs = FALSE) the returned promise rejects.
\* modelName is the configured name, model the one put into the request.
Calls(fn, provider, constructs, o, modelName, model) ==
  IF provider = "external"
    THEN [CallIdle EXCEPT !.fn = fn, !.provider = provider, !.pc = "fetch",
                          !.outcome = o, !.modelName = modelName,
                          !.model = modelName]
  ELSE IF ~constructs
    THEN [CallIdle EXCEPT !.fn = fn, !.provider = provider, !.pc = "done",
                          !.rejected = TRUE, !.modelName = modelName]
  ELSE [CallIdle EXCEPT !.fn = fn, !.provider = provider,
                        !.pc = "generateContent", !.outcome = o,
                        !.modelName = modelName, !.model = model]

Resolves(value) == [call EXCEPT !.pc = "done", !.result = value]

\* startNewEpisode up to its first await
StartNewEpisode(provider, constructs, o, modelName) ==
  /\ call.pc = "idle"
  /\ o \in (IF provider = "external" THEN ExternalOutcomes
            ELSE GeminiOutcomes)
  /\ call' = Calls("startNewEpisode", provider, constructs, o, modelName,
                   getGeminiModelName(modelName))
  /\ UNCHANGED <<sessionVars, chain, app, epub, intro, speech>>

\* continueStory up to its first await
ContinueStory(provider, constructs, o, modelName) ==
  /\ call.pc = "idle"
  /\ o \in (IF provider = "external" THEN ExternalOutcomes
            ELSE GeminiOutcomes)
  /\ call' = Calls("continueStory", provider, constructs, o, modelName,
                   getGeminiModelName(modelName))
  /\ UNCHANGED <<sessionVars, chain, app, epub, intro, speech>>

\* callExternalLLM after its awaits
CallExternalLLMReturns ==
  /\ call.pc = "fetch"
  /\ call' = Resolves(callExternalLLM(call.outcome))
  /\ UNCHANGED <<sessionVars, chain, app, epub, intro, speech>>

\* startNewEpisode after `await ai.models.generateContent`
StartNewEpisodeResumes ==
  /\ call.fn = "startNewEpisode"
  /\ call.pc = "generateContent"
  /\ call' = Resolves(GeminiText(call.outcome,
                        "The screen flickers... the signal is weak."))
  /\ UNCHANGED <<sessionVars, chain, app, epub, intro, speech>>

\* continueStory after `await ai.models.generateContent`
ContinueStoryResumes ==
  /\ call.fn = "continueStory"
  /\ call.pc = "generateContent"
  /\ call' = Resolves(GeminiText(call.outcome, "Static fills the air..."))
  /\ UNCHANGED <<sessionVars, chain, app, epub, intro, speech>>

\* generateSceneImage up to its await
GenerateSceneImage(constructs, o) ==
  /\ call.pc = "idle"
  /\ call' = Calls("generateSceneImage", "gemini", constructs, o, <<>>,
                   IMAGE_MODEL)
  /\ UNCHANGED <<sessionVars, chain, app, epub, intro, speech>>

\* generateSceneImage after its await
GenerateSceneImageResumes ==
  /\ call.fn = "generateSceneImage"
  /\ call.pc = "generateContent"
  /\ call' = Resolves(IF call.outcome.kind = "data"
                        THEN Image(<<"data:image/png;base64,">>
                                   \o call.outcome.text)
                        ELSE Undefined)
  /\ UNCHANGED <<sessionVars, chain, app, epub, intro, speech>>

\* generateNarrationAudio up to its await
GenerateNarrationAudio(constructs, o) ==
  /\ call.pc = "idle"
  /\ call' = Calls("generateNarrationAudio", "gemini", constructs, o, <<>>,
                   AUDIO_MODEL)
  /\ UNCHANGED <<sessionVars, chain, app, epub, intro, speech>>

\* generateNarrationAudio after its await
GenerateNarrationAudioResumes ==
  /\ call.fn = "generateNarrationAudio"
  /\ call.pc = "generateContent"
  /\ call' = Resolves(IF call.outcome.kind = "data"
                        THEN Image(call.outcome.text)
                        ELSE Undefined)
  /\ UNCHANGED <<sessionVars, chain, app, epub, intro, speech>>

\* The caller has its answer (or the rejection); the next call may start.
CallReturned ==
  /\ call.pc = "done"
  /\ call' = CallIdle
  /\ UNCHANGED <<sessionVars, chain, app, epub, intro, speech>>

NextProvider ==
  \/ /\ call.pc = "idle"
     /\ \E p \in Providers, c \in BOOLEAN,
           o \in ExternalOutcomes \cup GeminiOutcomes, m \in ModelNames :
          StartNewEpisode(p, c, o, m)
  \/ /\ call.pc = "idle"
     /\ \E p \in Providers, c \in BOOLEAN,
           o \in ExternalOutcomes \cup GeminiOutcomes, m \in ModelNames :
          ContinueStory(p, c, o, m)
  \/ CallExternalLLMReturns
  \/ StartNewEpisodeResumes
  \/ ContinueStoryResumes
  \/ \E c \in BOOLEAN, o \in AssetOutcomes : GenerateSceneImage(c, o)
  \/ GenerateSceneImageResumes
  \/ \E c \in BOOLEAN, o \in AssetOutcomes : GenerateNarrationAudio(c, o)
  \/ GenerateNarrationAudioResumes
  \/ CallReturned

SpecProvider == InitChain /\ [][NextProvider]_vars

\* ============================================================ the export
\* generateEpub(history, title).  A text is a sequence of pieces; each of the
\* characters the encoder looks for, and the line feed, is a piece of its own.
XmlChars == {"<", ">", "&", "'", "\"", "a", "\n"}
ExportTexts == UNION {[1..n -> XmlChars] : n \in 0..MaxText}
DefaultTitle == <<"Twisted Logic Episode">>
NoTitle == <<"undefined">>
Titles == ExportTexts \cup {NoTitle}
PngImage == <<"data:image/png;base64,", "iVBOR">>

\* the StoryMessage[] handed to generateEpub: narrator and protagonist turns
\* alternate, images are attached to narrator turns only
ExportMessage(role, text, image) ==
  [role |-> role, text |-> text, image |-> image]
ExportTurn(i) ==
  {ExportMessage(IF i % 2 = 1 THEN "model" ELSE "user", t, img) :
     t \in ExportTexts,
     img \in (IF i % 2 = 1 THEN {<<>>, PngImage} ELSE {<<>>})}
RECURSIVE ExportHistoriesOfLen(_)
ExportHistoriesOfLen(n) ==
  IF n = 0 THEN {<<>>}
  ELSE {Append(h, m) : h \in ExportHistoriesOfLen(n - 1), m \in ExportTurn(n)}
ExportHistories == UNION {ExportHistoriesOfLen(n) : n \in 0..MaxExportTurns}

\* the replacement escapeXml's callback returns for one matched character
Entity(c) ==
  CASE c = "<" -> <<"&", "l", "t", ";">>
    [] c = ">" -> <<"&", "g", "t", ";">>
    [] c = "&" -> <<"&", "a", "m", "p", ";">>
    [] c = "'" -> <<"&", "a", "p", "o", "s", ";">>
    [] c = "\"" -> <<"&", "q", "u", "o", "t", ";">>
    [] OTHER -> <<c>>

RECURSIVE escapeXml(_)
escapeXml(unsafe) ==
  IF unsafe = <<>> THEN <<>>
  ELSE Entity(Head(unsafe)) \o escapeXml(Tail(unsafe))

\* .replace(/\n/g, '<br/>')
replaceNewlines(t) ==
  [i \in 1..Len(t) |-> IF t[i] = "\n" THEN "<br/>" ELSE t[i]]

\* msg.image.replace(/^data:image\/(png|jpeg|jpg);base64,/, "")
stripDataUri(image) ==
  IF Len(image) > 0
     /\ image[1] \in {"data:image/png;base64,", "data:image/jpeg;base64,",
                      "data:image/jpg;base64,"}
    THEN Tail(image) ELSE image

\* A document is a sequence of segments: fixed markup of the template
\* ("markup"), an interpolated text ("text", of: where it came from, chars:
\* what was written), an <img> tag ("img"), a manifest <item> ("item"),
\* or raw file data ("data").
Seg(kind, of, chars) == [kind |-> kind, of |-> of, chars |-> chars]
Markup(m) == Seg("markup", "", <<m>>)

imageName_Fixed(index) == <<"img_", "0", ".png">>

\* `img_${index}.png`
imageName(index) == <<"img_", ToString(index), ".png">>

\* one iteration of history.forEach: what it appends to contentBody
messageHtml(msg, index) ==
  <<Markup("<div class=message><p class=role>"),
    Markup(IF msg.role = "user" THEN "The Protagonist" ELSE "The Curator"),
    Markup("</p><p>"),
    Seg("text", ToString(index), replaceNewlines(escapeXml(msg.text))),
    Markup("</p>")>>
  \o (IF msg.image # <<>>
        THEN <<Seg("img", ToString(index),
                   <<"images/">> \o imageName(index))>>
        ELSE <<>>)
  \o (IF msg.role = "model" THEN <<Markup("<hr/>")>> ELSE <<>>)
  \o <<Markup("</div>")>>

\* ... and to imageManifestItems
manifestItem(msg, index) ==
  IF msg.image # <<>>
    THEN <<Seg("item", ToString(index), <<"images/">> \o imageName(index))>>
    ELSE <<>>

RECURSIVE contentBody(_, _)
contentBody(h, n) ==
  IF n = 0 THEN <<>>
  ELSE contentBody(h, n - 1) \o messageHtml(h[n], n - 1)

RECURSIVE imageManifestItems(_, _)
imageManifestItems(h, n) ==
  IF n = 0 THEN <<>>
  ELSE imageManifestItems(h, n - 1) \o manifestItem(h[n], n - 1)

xhtmlContent(h, title) ==
  <<Markup("<html><head><title>"), Seg("text", "title", title),
    Markup("</title><style/></head><body><h1>"), Seg("text", "title", title),
    Markup("</h1><p>Recorded</p>")>>
  \o contentBody(h, Len(h))
  \o <<Markup("</body></html>")>>

opfContent(h, title) ==
  <<Markup("<package><metadata><dc:title>"), Seg("text", "title", title),
    Markup("</dc:title></metadata><manifest>"),
    Seg("item", "story", <<"story.xhtml">>),
    Seg("item", "ncx", <<"toc.ncx">>)>>
  \o imageManifestItems(h, Len(h))
  \o <<Markup("</manifest><spine/></package>")>>

ncxContent(title) ==
  <<Markup("<ncx><head/><docTitle><text>"), Seg("text", "title", title),
    Markup("</text></docTitle><navMap/></ncx>")>>

\* An entry of the package: its path, its content, the compression asked for
\* ("DEFAULT" when the call passes none).
Entry(name, content, compression) ==
  [name |-> name, content |-> content, compression |-> compression]

file_Prepends(entries, e) == <<e>> \o entries

\* JSZip keeps its entries by name in insertion order: file() and folder()
\* append a new name, and replace the entry of a name already there.
file(entries, e) ==
  IF \E j \in 1..Len(entries) : entries[j].name = e.name
    THEN [j \in 1..Len(entries) |->
            IF entries[j].name = e.name THEN e ELSE entries[j]]
    ELSE Append(entries, e)

folder(entries, name) == file(entries, Entry(name, <<>>, "DEFAULT"))

\* imagesFolder.file(imageName, base64Data) of each iteration, in order
RECURSIVE imageFiles(_, _, _)
imageFiles(entries, h, n) ==
  IF n = 0 THEN entries
  ELSE LET before == imageFiles(entries, h, n - 1)
           msg == h[n]
       IN IF msg.image # <<>>
            THEN file(before,
                      Entry(<<"OEBPS/", "images/">> \o imageName(n - 1),
                            <<Seg("data", ToString(n - 1),
                                  stripDataUri(msg.image))>>, "DEFAULT"))
            ELSE before

\* the entries of the zip when generateEpub reaches zip.generateAsync
zipEntries(h, title) ==
  LET z1 == file(<<>>, Entry(<<"mimetype">>,
                             <<Markup("application/epub+zip")>>, "STORE"))
      z2 == folder(z1, <<"META-INF/">>)
      z3 == file(z2, Entry(<<"META-INF/", "container.xml">>,
                           <<Markup("<container/>")>>, "DEFAULT"))
      z4 == folder(z3, <<"OEBPS/">>)
      z5 == folder(z4, <<"OEBPS/", "images/">>)
      z6 == imageFiles(z5, h, Len(h))
      z7 == file(z6, Entry(<<"OEBPS/", "story.xhtml">>,
                           xhtmlContent(h, title), "DEFAULT"))
      z8 == file(z7, Entry(<<"OEBPS/", "content.opf">>,
                           opfContent(h, title), "DEFAULT"))
  IN file(z8, Entry(<<"OEBPS/", "toc.ncx">>, ncxContent(title), "DEFAULT"))

\* generateEpub up to `await zip.generateAsync`; title is the argument, or
\* NoTitle when the caller passes none (the parameter's default applies)
GenerateEpub(h, title) ==
  /\ epub.pc = "idle"
  /\ epub' = [pc |-> "generateAsync", history |-> h, title |-> title,
              entries |-> zipEntries(h, IF title = NoTitle THEN DefaultTitle
                                        ELSE title),
              saved |-> FALSE]
  /\ UNCHANGED <<sessionVars, chain, call, app, intro, speech>>

\* generateEpub after the await: saveFile(blob, ...)
GenerateEpubResumes ==
  /\ epub.pc = "generateAsync"
  /\ epub' = [epub EXCEPT !.pc = "done", !.saved = TRUE]
  /\ UNCHANGED <<sessionVars, chain, call, app, intro, speech>>

\* The caller has the file; the next export may start.
EpubReturned ==
  /\ epub.pc = "done"
  /\ epub' = EpubIdle
  /\ UNCHANGED <<sessionVars, chain, call, app, intro, speech>>

NextExport ==
  \/ /\ epub.pc = "idle"
     /\ \E h \in ExportHistories, t \in Titles : GenerateEpub(h, t)
  \/ GenerateEpubResumes
  \/ EpubReturned

SpecExport == InitChain /\ [][NextExport]_vars

\* ================================================ browser speech, timed
\* The fallback branch of handleAudioPlayback against the clock: one
\* playback of a text of speech.length characters, from its start until its
\* timer has fired.  Time is counted in milliseconds since the start.
TextLengths == 0..MaxChars

\* the delay that ignores the cap
timeoutDelay_Uncapped(length) == length * 100

\* Math.min(text.length * 100, 10000)
timeoutDelay(length) ==
  IF length * 100 < 10000 THEN length * 100 ELSE 10000

\* handleAudioPlayback(text) without audio data: stopAudio,
\* setIsPlayingAudio(true), playBrowserAudio(text), setTimeout(..., delay)
HandleAudioPlaybackSpeech(length) ==
  /\ speech.pc = "idle"
  /\ speech' = [pc |-> "playing", length |-> length,
                delay |-> timeoutDelay(length), elapsed |-> 0,
                timer |-> TRUE, synth |-> TRUE, isPlayingAudio |-> TRUE]
  /\ UNCHANGED <<sessionVars, chain, call, app, epub, intro>>

\* Time passes: up to the moment the pending timer is due.
Tick ==
  /\ speech.timer
  /\ speech.elapsed < speech.delay
  /\ speech' = [speech EXCEPT !.elapsed =
                  IF @ + TickMs < speech.delay THEN @ + TickMs
                  ELSE speech.delay]
  /\ UNCHANGED <<sessionVars, chain, call, app, epub, intro>>

\* The synthesis reaches the end of the utterance; nothing listens to it.
UtteranceEnds ==
  /\ speech.synth
  /\ speech' = [speech EXCEPT !.synth = FALSE]
  /\ UNCHANGED <<sessionVars, chain, call, app, epub, intro>>

\* The timer is due: () => setIsPlayingAudio(false)
SpeechTimerFires ==
  /\ speech.timer
  /\ speech.elapsed >= speech.delay
  /\ speech' = [speech EXCEPT !.timer = FALSE, !.isPlayingAudio = FALSE]
  /\ UNCHANGED <<sessionVars, chain, call, app, epub, intro>>

\* The playback is over; the next one may be timed.
SpeechOver ==
  /\ speech.pc = "playing"
  /\ ~speech.timer
  /\ ~speech.synth
  /\ speech' = SpeechIdle
  /\ UNCHANGED <<sessionVars, chain, call, app, epub, intro>>

NextSpeech ==
  \/ /\ speech.pc = "idle"
     /\ \E length \in TextLengths : HandleAudioPlaybackSpeech(length)
  \/ Tick
  \/ UtteranceEnds
  \/ SpeechTimerFires
  \/ SpeechOver

SpecSpeech == InitChain /\ [][NextSpeech]_vars

\* ============================================================ IntroScreen
\* App holds gameState and settings; IntroScreen holds showConfig and
\* errorMsg and is rendered while gameState = INTRO.  intro.last names the
\* handler that ran in the last step.
NoError == "null"
KeyRequired == "API Key required for Gemini access."
PleaseConfigure == "Please configure a Gemini API Key to proceed."

\* the <option> values of the Gemini model <select>
GeminiOptions ==
  {<<"gemini", "-2.5-flash">>, <<"gemini", "-3-flash-preview">>,
   <<"gemini", "-3-pro-preview">>}

\* what can be typed into the key field: a key is a sequence of characters
ApiKeys == UNION {[1..n -> {" ", "k"}] : n \in 0..MaxKey}

BaseUrls == {"http://localhost:1234/v1", "http://host:8080/v1"}

IntroSettings ==
  [provider |-> "gemini", baseUrl |-> "http://localhost:1234/v1",
   modelName |-> DefaultModel, apiKey |-> <<>>,
   autoGenerateImage |-> TRUE, autoGenerateAudio |-> TRUE]

\* a freshly mounted IntroScreen over the given settings
IntroMounted(s) ==
  [gameState |-> "INTRO", settings |-> s, showConfig |-> FALSE,
   errorMsg |-> NoError, last |-> "none"]

\* (the model name kept across a provider switch)
handleProviderSwitch_KeepsModel(s, newProvider) ==
  [s EXCEPT !.provider = newProvider]

\* {...settings, ...updates} of handleProviderSwitch
handleProviderSwitch(s, newProvider) ==
  IF newProvider = "gemini"
    THEN [s EXCEPT !.provider = newProvider, !.modelName = DefaultModel]
  ELSE IF startsWith(s.modelName, "gemini")
    THEN [s EXCEPT !.provider = newProvider, !.modelName = <<>>]
  ELSE [s EXCEPT !.provider = newProvider]

\* (the key tested without trim)
keyMissing_NoTrim(s) == s.provider = "gemini" /\ s.apiKey = <<>>

\* settings.provider === 'gemini' && !settings.apiKey.trim()
keyMissing(s) == s.provider = "gemini" /\ trim(s.apiKey) = <<>>

\* the settings form is rendered
ConfigShown == intro.gameState = "INTRO" /\ intro.showConfig

\* the start screen is rendered
StartShown == intro.gameState = "INTRO" /\ ~intro.showConfig

HandleChange(field, value) ==
  /\ ConfigShown
  /\ intro' = [intro EXCEPT !.settings = [@ EXCEPT ![field] = value],
                            !.errorMsg = NoError,
                            !.last = "handleChange"]
  /\ UNCHANGED <<sessionVars, chain, call, app, epub, speech>>

HandleProviderSwitch(newProvider) ==
  /\ ConfigShown
  /\ intro' = [intro EXCEPT
                !.settings = handleProviderSwitch(@, newProvider),
                !.errorMsg = NoError,
                !.last = "handleProviderSwitch"]
  /\ UNCHANGED <<sessionVars, chain, call, app, epub, speech>>

ValidateAndSave ==
  /\ ConfigShown
  /\ intro' = IF keyMissing(intro.settings)
                THEN [intro EXCEPT !.errorMsg = KeyRequired,
                                   !.last = "validateAndSave"]
                ELSE [intro EXCEPT !.showConfig = FALSE,
                                   !.errorMsg = NoError,
                                   !.last = "validateAndSave"]
  /\ UNCHANGED <<sessionVars, chain, call, app, epub, speech>>

\* onStart is App's () => setGameState(GameState.PLAYING)
HandleStartAttempt ==
  /\ StartShown
  /\ intro' = IF keyMissing(intro.settings)
                THEN [intro EXCEPT !.errorMsg = PleaseConfigure,
                                   !.showConfig = TRUE,
                                   !.last = "handleStartAttempt"]
                ELSE [intro EXCEPT !.gameState = "PLAYING",
                                   !.last = "handleStartAttempt"]
  /\ UNCHANGED <<sessionVars, chain, call, app, epub, speech>>

\* the Config button of the start screen
OpenConfig ==
  /\ StartShown
  /\ intro' = [intro EXCEPT !.showConfig = TRUE, !.errorMsg = NoError,
                            !.last = "openConfig"]
  /\ UNCHANGED <<sessionVars, chain, call, app, epub, speech>>

\* GameScreen's onRestart: App renders a new IntroScreen over its settings
RestartToIntro ==
  /\ intro.gameState = "PLAYING"
  /\ intro' = IntroMounted(intro.settings)
  /\ UNCHANGED <<sessionVars, chain, call, app, epub, speech>>

\* The page is loaded again: App starts in INTRO with the settings that
\* handleSettingsChange saved last (DEFAULT_SETTINGS when none was saved,
\* which is then what the settings still are).
Reload ==
  /\ intro' = IntroMounted(intro.settings)
  /\ UNCHANGED <<sessionVars, chain, call, app, epub, speech>>

InitIntro ==
  /\ InitSession
  /\ settings = DEFAULT_SETTINGS
  /\ chain = ChainIdle
  /\ call = CallIdle
  /\ app = Playing(settings)
  /\ epub = EpubIdle
  /\ intro = IntroMounted(IntroSettings)
  /\ speech = SpeechIdle

NextIntro ==
  \/ \E p \in {"gemini", "external"} : HandleProviderSwitch(p)
  \/ /\ intro.settings.provider = "external"
     /\ \E u \in BaseUrls : HandleChange("baseUrl", u)
  \/ /\ intro.settings.provider = "external"
     /\ \E n \in ModelNames : HandleChange("modelName", n)
  \/ /\ intro.settings.provider # "external"
     /\ \E n \in GeminiOptions : HandleChange("modelName", n)
  \/ \E k \in ApiKeys : HandleChange("apiKey", k)
  \/ HandleChange("autoGenerateImage", ~intro.settings.autoGenerateImage)
  \/ HandleChange("autoGenerateAudio", ~intro.settings.autoGenerateAudio)
  \/ ValidateAndSave
  \/ HandleStartAttempt
  \/ OpenConfig
  \/ RestartToIntro
  \/ Reload

SpecIntro == InitIntro /\ [][NextIntro]_vars

\* ======================================================= provider claims
\* a text call has settled
TextCallDone ==
  call.pc = "done" /\ call.fn \in {"startNewEpisode", "continueStory"}

\* C12 (as claimed): a text failure that is neither of the auth nor of the
\* quota class resolves to a message with ended = false, for both providers.
C12_OtherFailureContinues ==
  (TextCallDone /\ call.outcome.class = "other") =>
    /\ ~call.rejected
    /\ call.result.kind = "response"
    /\ call.result.text # <<>>
    /\ call.result.ended = FALSE

\* C13 (as claimed): a text failure of the auth or quota class resolves to a
\* message with ended = true, for both providers.
C13_AuthFailureEnds ==
  (TextCallDone /\ call.outcome.class \in {"auth", "quota"}) =>
    /\ ~call.rejected
    /\ call.result.kind = "response"
    /\ call.result.text # <<>>
    /\ call.result.ended = TRUE

\* C14 (as claimed): no adapter rejects; a text call resolves to a
\* {text, ended} value, an asset call to an artifact or undefined.
C14_NeverRejects ==
  call.pc = "done" =>
    /\ ~call.rejected
    /\ IF call.fn \in {"startNewEpisode", "continueStory"}
         THEN call.result.kind = "response"
         ELSE call.result.kind \in {"image", "undefined"}

\* ========================================================== chain claims
\* A candidate's exchange fails when the fetch fails, the status is not 2xx,
\* the body does not parse, or the payload is empty; otherwise it succeeds.
Fails(o) == o.status # "ok" \/ o.body = <<>>

\* the first candidate of the running chain whose exchange succeeds; 0 if none
FirstSuccess ==
  LET ok == {j \in 1..Len(chain.env) : ~Fails(chain.env[j])}
  IN IF ok = {} THEN 0 ELSE CHOOSE j \in ok : \A i \in ok : j <= i

\* C9: candidates are called in the chain's order, one at a time; if the
\* first k-1 fail and the k-th succeeds, exactly the first k are called and
\* the chain resolves with what the k-th returned.
C9_FirstSuccessWins ==
  /\ Len(chain.issued) <= Len(Order(chain.fn))
  /\ chain.issued = SubSeq(Order(chain.fn), 1, Len(chain.issued))
  /\ Len(chain.issued) - Len(chain.returned) \in {0, 1}
  /\ \A j \in 1..Len(chain.returned) : chain.returned[j].cand = chain.issued[j]
  /\ (chain.pc = "done" /\ FirstSuccess > 0) =>
       /\ Len(chain.issued) = FirstSuccess
       /\ Len(chain.returned) = FirstSuccess
       /\ chain.result = chain.returned[FirstSuccess].ret
       /\ Truthy(chain.result)

\* both chains resolved by their second candidate after the first failed
C9_Witness ==
  /\ chain.pc = "done"
  /\ FirstSuccess = 2
  /\ Len(chain.returned) = 2
  /\ chain.result = chain.returned[2].ret
  /\ chain.env[1].status = "ok"

\* C10 (as claimed): when every candidate fails, every candidate was called
\* and the chain resolves with its exhausted result: the in-fiction message
\* with ended = false for text, undefined for an image.
C10_ExhaustedResult ==
  (chain.pc = "done" /\ FirstSuccess = 0) =>
    /\ chain.issued = Order(chain.fn)
    /\ Len(chain.returned) = Len(Order(chain.fn))
    /\ chain.fn = "text" => chain.result = AllFailedText
    /\ chain.fn = "image" => chain.result = Undefined

\* C11 (as claimed): an empty payload is a candidate's failure, so the text
\* chain never resolves with an empty text, and a 2xx answer with empty
\* output from the last candidate gives the exhausted in-fiction message.
C11_EmptyPayloadIsFailure ==
  (chain.pc = "done" /\ chain.fn = "text") =>
    /\ chain.result.text # <<>>
    /\ (Len(chain.returned) = 2 /\ chain.env[2] = Outcome("ok", <<>>)) =>
         chain.result = AllFailedText

\* ======================================================== session claims
\* The last step was a submit: lastSubmit holds its input.
Submitted == lastSubmit # NoSubmit

\* C1: a non-empty history starts with a narrator turn and no two consecutive
\* turns have the same role.
C1_RolesAlternate ==
  /\ history # <<>> => history[1].role = "model"
  /\ \A i \in 1..(Len(history) - 1) : history[i].role # history[i + 1].role

\* a full exchange that was aborted and then back-filled
C1_Witness ==
  /\ Len(history) >= 3
  /\ isEnded
  /\ history[3].image # NoAsset

\* C2: a submit in an ended session changes nothing: no turn, no text
\* request, the loading flag and every other piece of state as before.
C2_SubmitWhenEndedIsNoOp ==
  [][(isEnded /\ Submitted') =>
       UNCHANGED <<pc, settings, history, isLoading, isImageLoading,
                   isPlayingAudio, autoNarrate, isEnded, audioSourceRef,
                   textReqs, assetReqs, clickReqs, clicks, sources, speaking,
                   timers>>]_vars

\* a non-blank submit has just been refused by a session that ended
C2_Witness ==
  /\ isEnded
  /\ lastSubmit \in ActionTexts
  /\ ~isLoading
  /\ Len(history) >= 1

\* C3 (as claimed): once the session is ended, a text reply that resolves
\* appends no turn and issues no asset request.
C3_LateReplyDiscarded ==
  [][(isEnded /\ textReqs' # textReqs) =>
       (history' = history /\ assetReqs' = assetReqs)]_vars

\* C4 (as claimed): an asset is only ever attached to the turn it was
\* generated for.
C4_AssetOnRequestingTurn ==
  \A i \in 1..Len(history) :
    /\ history[i].image \in {NoAsset, i}
    /\ history[i].audio \in {NoAsset, i}

\* C5 (as claimed): at most one audio source is live, that is started and
\* neither stopped nor at its end.
C5_AtMostOneLive == Cardinality(Live(sources)) <= 1

\* C6 (as claimed): when a node is started, the node that sounded before has
\* been stopped and the browser speech cancelled, so the started node is the
\* only stream, and it is the one held in audioSourceRef.
C6_StopBeforeStart ==
  [][\A s \in SourceIds :
       (sources[s] # "playing" /\ sources'[s] = "playing") =>
         /\ Live(sources') = {s}
         /\ ~speaking'
         /\ audioSourceRef' = s]_vars

\* C7: at most one text request is in flight, and a submit arriving while one
\* is in flight issues no request and appends no turn.
C7_OneTextRequest ==
  /\ [](Cardinality(textReqs) <= 1)
  /\ [][(textReqs # {} /\ Submitted') =>
          UNCHANGED <<history, textReqs>>]_vars

\* a non-blank submit has just been refused while the start request is in
\* flight
C7_Witness ==
  /\ lastSubmit \in ActionTexts
  /\ history = <<>>
  /\ Cardinality(textReqs) = 1
  /\ ~isEnded

\* C8: a non-blank submit on a session that is neither ended nor loading
\* issues exactly one continueStory call, with the history as it was and the
\* input as the action (the last message sent upstream), and appends one
\* protagonist turn; when that call resolves exactly one narrator turn with
\* the reply text is appended.
IssuedBy(input) ==
  {[kind |-> "action", history |-> history, action |-> input, auto |-> a] :
     a \in BOOLEAN}

SubmitStep ==
  (lastSubmit' \in ActionTexts /\ ~isEnded /\ ~isLoading) =>
    /\ textReqs = {}
    /\ Cardinality(textReqs') = 1
    /\ textReqs' \subseteq IssuedBy(lastSubmit')
    /\ history' = Append(history, StoryMessage("user", lastSubmit'))
    /\ \A r \in textReqs', p \in Providers :
         LET m == continueStoryMessages(p, r.history, r.action)
             n == Len(m)
             k == Len(history)
         IN /\ n > k
            /\ m[n] = [role |-> "user", content |-> lastSubmit']
            /\ \A i \in 1..k : m[n - k - 1 + i].content = history[i].text

ReplyStep ==
  \A r \in textReqs \ textReqs' :
    r.kind = "action" =>
      /\ textReqs' = {}
      /\ Len(history') = Len(history) + 1
      /\ SubSeq(history', 1, Len(history)) = history
      /\ history'[Len(history')].role = "model"
      /\ history'[Len(history')].text \in ReplyTexts
      /\ history' = Append(r.history, StoryMessage("user", r.action))
                     \o <<history'[Len(history')]>>

C8_ValidSubmit == [][SubmitStep /\ ReplyStep]_vars

\* the reply to an accepted submit has been appended
C8_Witness ==
  /\ Len(history) = 3
  /\ history[2] = StoryMessage("user", "a1")
  /\ history[3].text \in ReplyTexts
  /\ textReqs = {}
  /\ ~isLoading
  /\ ~isEnded

\* C15: asset requests do not hold up the text flow, and the two asset kinds
\* are independent: while asset requests are outstanding and no text request
\* is, the session is not loading and accepts a submit; the step in which an
\* audio result arrives attaches (at most) the audio and plays it if
\* auto-narration was on, whatever the state of the image requests, and
\* touches nothing of the image side; and the other way round.
ImageSide(h) == [i \in 1..Len(h) |-> h[i].image]
AudioSide(h) == [i \in 1..Len(h) |-> h[i].audio]
Requests(kind) == {r \in assetReqs : r.kind = kind}

AcceptedWhileAssetsPending ==
  (assetReqs # {} /\ textReqs = {} /\ ~isEnded
     /\ lastSubmit' \in ActionTexts) =>
    /\ history' = Append(history, StoryMessage("user", lastSubmit'))
    /\ Cardinality(textReqs') = 1

AudioArrives ==
  \A r \in assetReqs \ assetReqs' :
    r.kind = "audio" =>
      /\ Requests("image")' = Requests("image")
      /\ isImageLoading' = isImageLoading
      /\ ImageSide(history') = ImageSide(history)
      /\ history' \in {history, updateLastMessageAsset(history, "audio", r.turn)}
      /\ r.auto => isPlayingAudio'
      /\ ~r.auto => UNCHANGED <<sources, audioSourceRef, speaking,
                               isPlayingAudio, timers>>

ImageArrives ==
  \A r \in assetReqs \ assetReqs' :
    r.kind = "image" =>
      /\ Requests("audio")' = Requests("audio")
      /\ AudioSide(history') = AudioSide(history)
      /\ history' \in {history, updateLastMessageAsset(history, "image", r.turn)}
      /\ UNCHANGED <<sources, audioSourceRef, speaking, isPlayingAudio,
                     timers, isLoading>>

C15_AssetsIndependent ==
  /\ []((assetReqs # {} /\ textReqs = {}) => ~isLoading)
  /\ [][AcceptedWhileAssetsPending /\ AudioArrives /\ ImageArrives]_vars

\* the audio of the seed turn is attached and playing while its image is
\* still being generated, and the session is waiting for input
C15_Witness ==
  /\ Len(history) = 1
  /\ history[1].audio # NoAsset
  /\ history[1].image = NoAsset
  /\ Requests("image") # {}
  /\ isPlayingAudio
  /\ ~isLoading
  /\ ~isEnded

\* a step that appends a narrator turn
NarratorAppended ==
  /\ Len(history') = Len(history) + 1
  /\ history'[Len(history')].role = "model"

\* C16 (as claimed): the step that appends a narrator turn, the seed or a
\* reply, ended or not, issues an image request for that turn iff
\* autoGenerateImage is set and an audio request iff autoGenerateAudio is set.
C16_AssetsAfterEveryNarratorTurn ==
  [][NarratorAppended =>
       LET issued == assetReqs' \ assetReqs
           For(kind) == \E r \in issued :
                          r.kind = kind /\ r.turn = Len(history')
       IN /\ settings.autoGenerateImage <=> For("image")
          /\ settings.autoGenerateAudio <=> For("audio")]_vars

\* C17: the ended flag never goes back to false within a session.
C17_EndedIsMonotonic == [][isEnded => isEnded']_vars

\* an aborted session has just received the late reply of a submit, with
\* ended = false, and is still ended
C17_Witness ==
  /\ isEnded
  /\ lastReply # NoReply
  /\ ~lastReply.ended
  /\ Len(history) = 3

\* C18: the mount effect issues exactly one text call, with no history and
\* the fixed directive as its only user message; when it resolves in a
\* session that was not aborted, the history is the one narrator turn with
\* the reply's text and the session is ended iff the reply's ended flag is
\* set.
StartRequests == {r \in textReqs : r.kind = "start"}

StartStep ==
  (pc = "unmounted" /\ pc' = "mounted") =>
    /\ textReqs = {}
    /\ Cardinality(textReqs') = 1
    /\ \A r \in textReqs' :
         /\ r.kind = "start"
         /\ r.history = <<>>
         /\ r.action = BeginDirective
         /\ \A p \in Providers :
              LET m == startNewEpisodeMessages(p)
              IN /\ m[Len(m)] = [role |-> "user", content |-> r.action]
                 /\ \A i \in 1..(Len(m) - 1) : m[i].role = "system"

StartReplyStep ==
  \A r \in textReqs \ textReqs' :
    r.kind = "start" =>
      /\ lastReply' # NoReply
      /\ history' = <<StoryMessage("model", lastReply'.text)>>
      /\ ~isEnded => (isEnded' <=> lastReply'.ended)

C18_StartSeedsOneTurn ==
  /\ [](/\ Cardinality(StartRequests) <= 1
        /\ StartRequests # {} => history = <<>>
        /\ pc = "unmounted" => textReqs = {})
  /\ [][/\ StartStep
        /\ StartReplyStep
        /\ StartRequests' \subseteq StartRequests \/ pc = "unmounted"]_vars

\* the start reply has just arrived with its ended flag set and the session
\* is ended with the one seed turn
C18_Witness ==
  /\ lastReply # NoReply
  /\ lastReply.ended
  /\ history = <<StoryMessage("model", lastReply.text)>>
  /\ isEnded
  /\ textReqs = {}
  /\ ~isLoading

\* C19 (as claimed): the abort step (the session becomes ended without a
\* text reply arriving) issues no provider call, leaves the turn sequence
\* unchanged and leaves no playback active.
C19_AbortEndsAndSilences ==
  [][(~isEnded /\ isEnded' /\ textReqs' = textReqs) =>
       /\ history' = history
       /\ assetReqs' = assetReqs
       /\ clickReqs' = clickReqs
       /\ Live(sources') = {}
       /\ ~speaking']_vars

\* C20 (as claimed): for every adapter and every history that begins with a
\* narrator turn, the continue request is: the system instruction (a leading
\* system message, or the request's systemInstruction field), the opening
\* directive as first user message, the history in order with narrator as
\* assistant and protagonist as user, and the action as last user message.
Adapters == {"gemini", "external", "pollinations"}

ContinueRequest(adapter, h, userAction) ==
  IF adapter = "pollinations" THEN tryPollinationsTextMessages(h, userAction)
  ELSE continueStoryMessages(adapter, h, userAction)

\* Gemini names the assistant role "model"
AssistantRole(role) == role \in {"assistant", "model"}

WellFormedContinue(m, h, userAction) ==
  LET NotSystem(msg) == msg.role # "system"
      d == SelectSeq(m, NotSystem)
  IN /\ \A i \in 2..Len(m) : m[i].role # "system"
     /\ m[1].role = "system" => m[1].content = SystemInstruction
     /\ Len(d) = Len(h) + 2
     /\ d[1] = [role |-> "user", content |-> BeginDirective]
     /\ \A i \in 1..Len(h) :
          /\ i + 1 <= Len(d)
          /\ d[i + 1].content = h[i].text
          /\ IF h[i].role = "model" THEN AssistantRole(d[i + 1].role)
             ELSE d[i + 1].role = "user"
     /\ d[Len(d)] = [role |-> "user", content |-> userAction]
     /\ \A i \in 1..Len(d) :
          IF i % 2 = 1 THEN d[i].role = "user" ELSE AssistantRole(d[i].role)

C20_ContinueRequestShape ==
  \A r \in textReqs :
    (r.kind = "action" /\ r.history # <<>> /\ r.history[1].role = "model") =>
      \A adapter \in Adapters :
        WellFormedContinue(ContinueRequest(adapter, r.history, r.action),
                           r.history, r.action)

\* the end sentinel, in any letter case
Sentinel(tok) == toLowerCase(tok) = "[the_end]"
HasSentinel(text) == \E i \in 1..Len(text) : Sentinel(text[i])

\* C21 (as claimed): a narrative of a free-text provider that contains the
\* end sentinel in any letter case gives ended = true and a text without the
\* sentinel; for the external path and for the free text fallback adapters.
C21_SentinelEndsAndIsStripped ==
  /\ (/\ call.pc = "done"
      /\ call.provider = "external"
      /\ call.outcome.kind = "ok"
      /\ HasSentinel(call.outcome.text)) =>
       /\ call.result.ended
       /\ ~HasSentinel(call.result.text)
  /\ (/\ chain.pc = "done"
      /\ chain.fn = "text"
      /\ chain.result = chain.returned[Len(chain.returned)].ret
      /\ HasSentinel(chain.env[Len(chain.returned)].body)) =>
       /\ chain.result.ended
       /\ ~HasSentinel(chain.result.text)

\* --- C22
\* the Gemini branch of a text adapter has sent its request
GeminiTextSent ==
  /\ call.fn \in {"startNewEpisode", "continueStory"}
  /\ call.provider = "gemini"
  /\ call.model # <<>>

\* a configured name the Gemini path may pass on as it is
Acceptable(name) ==
  /\ name # <<>>
  /\ ~includesPart(name, "/")
  /\ name[1] \in {"gemini", "veo"}

\* C22: on the Gemini text path the model sent upstream is the configured
\* name when that is non-empty, has no '/' and starts with 'gemini' or 'veo',
\* and the default otherwise; a name with a '/' is never sent.
C22_ModelNameSanitized ==
  GeminiTextSent =>
    /\ call.model = (IF Acceptable(call.modelName) THEN call.modelName
                     ELSE DefaultModel)
    /\ ~includesPart(call.model, "/")

\* a Gemini text call configured with 'gemini/...' went out with the default
C22_Witness ==
  /\ GeminiTextSent
  /\ call.pc = "done"
  /\ call.modelName = <<"gemini", "/">>
  /\ call.model = DefaultModel

\* --- C23
\* C23: the turn sequence is append-only and the text of a turn is immutable:
\* no step shortens it, and no step changes the role or the text of a turn
\* already present; only image and audio of an existing turn may change.
C23_AppendOnlyImmutableText ==
  [][/\ Len(history') >= Len(history)
     /\ \A i \in 1..Len(history) :
          /\ history'[i].role = history[i].role
          /\ history'[i].text = history[i].text]_vars

\* three turns, the last one with both assets back-filled after its text
C23_Witness ==
  /\ Len(history) = 3
  /\ history[3].text \in ReplyTexts
  /\ history[3].image # NoAsset
  /\ history[3].audio # NoAsset

\* --- C27
\* C27 (as claimed): the text of a failed text call is a fixed in-world
\* message; no piece of the provider's error message or status code is part
\* of it, on the Gemini path, the external path and the free-text chain.
C27_NoRawErrorInText ==
  /\ (TextCallDone /\ ~call.rejected /\ call.outcome.class # "none") =>
       \A i \in 1..Len(call.result.text) :
          call.result.text[i] \notin call.outcome.msg
  /\ (/\ chain.pc = "done"
      /\ chain.fn = "text"
      /\ \A j \in 1..Len(chain.env) : chain.env[j].status # "ok") =>
       chain.result = AllFailedText

\* --- C29
\* C29 (as claimed): submitting an action cancels narration.  An accepted
\* submit leaves nothing sounding, and an audio result requested for a turn
\* that is no longer the last one starts no playback when it resolves.
C29_SubmitCancelsNarration ==
  [][/\ (lastSubmit' \in ActionTexts /\ ~isEnded /\ ~isLoading) =>
          /\ Live(sources') = {}
          /\ ~speaking'
     /\ \A r \in assetReqs \ assetReqs' :
          (r.kind = "audio" /\ r.turn < Len(history)) =>
            /\ Allocated(sources') = Allocated(sources)
            /\ speaking' => speaking
            /\ timers' <= timers]_vars

\* --- C28
\* C28: the provider configuration is fixed while a session is played: no
\* step taken in PLAYING changes the settings App holds or the settings the
\* game screen uses, the screen uses what App holds, and the session started
\* from INTRO gets the settings as changed there.
C28_SettingsFixedWhilePlaying ==
  [][/\ app.gameState = "PLAYING" =>
          /\ settings = app.settings
          /\ app'.settings = app.settings
          /\ settings' = settings
     /\ (app.gameState = "INTRO" /\ app'.gameState = "PLAYING") =>
          settings' = app.settings]_vars

\* a session is being played with settings that were changed in INTRO
C28_Witness ==
  /\ app.gameState = "PLAYING"
  /\ pc = "mounted"
  /\ Len(history) = 3
  /\ settings = [autoGenerateImage |-> FALSE, autoGenerateAudio |-> TRUE]
  /\ settings = app.settings

\* --- C30
\* C30 (as claimed): the teardown of the game screen leaves nothing sounding
\* and drops the reference to the playback; afterwards no result of the old
\* session starts a playback or changes a turn.
C30_RestartSilencesOldSession ==
  [][/\ (pc = "mounted" /\ pc' = "torndown") =>
          /\ Live(sources') = {}
          /\ ~speaking'
          /\ audioSourceRef' = NoSource
     /\ pc = "torndown" =>
          /\ history' = history
          /\ Allocated(sources') = Allocated(sources)
          /\ Live(sources') \subseteq Live(sources)
          /\ speaking' => speaking]_vars

\* ========================================================= export claims
\* the title generateEpub works with
ExportTitle == IF epub.title = NoTitle THEN DefaultTitle ELSE epub.title

\* the content of the entry with the given name (<<>> if there is none)
Content(e, name) ==
  IF \E j \in 1..Len(e.entries) : e.entries[j].name = name
    THEN (CHOOSE c \in {e.entries[j] : j \in 1..Len(e.entries)} :
            c.name = name).content
    ELSE <<>>

\* every interpolated text of every document of the package
TextSegments ==
  UNION {{epub.entries[j].content[k] : k \in 1..Len(epub.entries[j].content)} :
           j \in 1..Len(epub.entries)}

\* the five characters and their entities
Specials == {"<", ">", "&", "'", "\""}
Reference(c) ==
  CASE c = "<" -> <<"&", "l", "t", ";">>
    [] c = ">" -> <<"&", "g", "t", ";">>
    [] c = "&" -> <<"&", "a", "m", "p", ";">>
    [] c = "'" -> <<"&", "a", "p", "o", "s", ";">>
    [] c = "\"" -> <<"&", "q", "u", "o", "t", ";">>

StartsWith(cs, pre) ==
  Len(cs) >= Len(pre) /\ SubSeq(cs, 1, Len(pre)) = pre

\* What a reader of the markup gets back from written text: an entity gives
\* its character, a line break gives the line feed, and a special character
\* left as it is gives "raw" (it is read as markup, not as text).
RECURSIVE Decode(_)
Decode(cs) ==
  IF cs = <<>> THEN <<>>
  ELSE IF \E c \in Specials : StartsWith(cs, Reference(c))
    THEN LET c == CHOOSE x \in Specials : StartsWith(cs, Reference(x))
         IN <<c>> \o Decode(SubSeq(cs, Len(Reference(c)) + 1, Len(cs)))
  ELSE IF Head(cs) \in Specials THEN <<"raw">> \o Decode(Tail(cs))
  ELSE IF Head(cs) = "<br/>" THEN <<"\n">> \o Decode(Tail(cs))
  ELSE <<Head(cs)>> \o Decode(Tail(cs))

\* the text a segment was written from
Supplied(seg) ==
  IF seg.of = "title" THEN ExportTitle
  ELSE epub.history[CHOOSE i \in 1..Len(epub.history) :
                      ToString(i - 1) = seg.of].text

\* the turn texts are escaped
TurnTextsEscaped ==
  \A seg \in TextSegments :
    (seg.kind = "text" /\ seg.of # "title") => Decode(seg.chars) = Supplied(seg)

C24_TurnWitness ==
  /\ epub.pc = "done"
  /\ Len(epub.history) = 3
  /\ epub.history[1].text = <<"&">>
  /\ epub.title = <<"a">>

\* --- C25
ImagePath(i) == <<"OEBPS/", "images/", "img_", ToString(i - 1), ".png">>
ImageHref(i) == <<"images/", "img_", ToString(i - 1), ".png">>
IsImageEntry(x) ==
  Len(x.name) > 2 /\ x.name[1] = "OEBPS/" /\ x.name[2] = "images/"
Segments(doc) == {doc[k] : k \in 1..Len(doc)}

ImagesExported(e) ==
  LET imgs == {j \in 1..Len(e.entries) : IsImageEntry(e.entries[j])}
      withImage == {i \in 1..Len(e.history) : e.history[i].image # <<>>}
  IN /\ Cardinality(imgs) = Cardinality(withImage)
     /\ \A i \in 1..Len(e.history) :
          Cardinality({j \in imgs : e.entries[j].name = ImagePath(i)})
            = (IF i \in withImage THEN 1 ELSE 0)
     /\ \A i \in withImage :
          /\ \E seg \in Segments(Content(e, <<"OEBPS/", "story.xhtml">>)) :
               seg.kind = "img" /\ seg.chars = ImageHref(i)
          /\ \E seg \in Segments(Content(e, <<"OEBPS/", "content.opf">>)) :
               seg.kind = "item" /\ seg.chars = ImageHref(i)

\* C25: the package holds exactly one image resource per turn with an image,
\* none for a turn without, the one of the turn at index i is img_i.png (so
\* the names differ), it is referenced from the content document and
\* declared in the manifest; the export leaves the turn sequence as it was.
C25_OneImagePerTurn ==
  [][/\ epub'.pc # "idle" => ImagesExported(epub')
     /\ (epub.pc # "idle" /\ epub'.pc # "idle") =>
          epub'.history = epub.history]_vars

\* three turns exported, both narrator turns with an image
C25_Witness ==
  /\ epub.pc = "done"
  /\ epub.saved
  /\ Len(epub.history) = 3
  /\ epub.history[1].image # <<>>
  /\ epub.history[3].image # <<>>
  /\ ImagesExported(epub)

\* --- C26
\* C26: whatever the turn sequence, the first entry of the package is the
\* mimetype entry, stored without compression; the other entries come after
\* it and none of them is a second mimetype entry.
C26_MimetypeFirstStored ==
  epub.pc # "idle" =>
    /\ Len(epub.entries) >= 8
    /\ epub.entries[1].name = <<"mimetype">>
    /\ epub.entries[1].compression = "STORE"
    /\ \A j \in 2..Len(epub.entries) : epub.entries[j].name # <<"mimetype">>
    /\ \E j \in 2..Len(epub.entries) :
         epub.entries[j].name = <<"OEBPS/", "story.xhtml">>

\* the export of an empty turn sequence: mimetype first of eight entries
C26_Witness ==
  /\ epub.pc = "generateAsync"
  /\ epub.history = <<>>
  /\ Len(epub.entries) = 8
  /\ epub.entries[1].name = <<"mimetype">>

\* ========================================================= speech claims
\* the estimated duration of a text of the given length, in milliseconds
EstimatedMs(length) ==
  LET linear == 100 * length IN IF linear <= 10000 THEN linear ELSE 10000

\* C31: a browser-speech playback keeps the speaking indicator until the
\* estimated duration min(100 * length, 10000) ms has passed since its
\* start, and clears it at that moment, whether the synthesis still runs or
\* not.
C31_IndicatorClearedAfterEstimate ==
  [][/\ speech'.timer =>
          /\ speech'.isPlayingAudio
          /\ speech'.elapsed <= EstimatedMs(speech'.length)
     /\ (speech.timer /\ ~speech'.timer) =>
          /\ speech.elapsed = EstimatedMs(speech.length)
          /\ ~speech'.isPlayingAudio
          /\ speech'.synth = speech.synth]_vars

\* the indicator of a long text was cleared at the cap while the synthesis
\* was still running
C31_Witness ==
  /\ speech.pc = "playing"
  /\ speech.length = MaxChars
  /\ speech.elapsed = 10000
  /\ ~speech.timer
  /\ ~speech.isPlayingAudio
  /\ speech.synth

\* ======================================================== replay claims
\* C32 (as claimed): when the audio generated on demand for narrator turn i
\* arrives, it is attached to turn i or (nothing was generated) to no turn;
\* the audio of every other turn is left as it was.
C32_ReplayAttachesToItsTurn ==
  [][\A i \in TurnIds :
       clickReqs'[i] < clickReqs[i] =>
         /\ Len(history') = Len(history)
         /\ \A j \in 1..Len(history) :
              IF j = i THEN history'[j].audio \in {history[j].audio, i}
              ELSE history'[j].audio = history[j].audio]_vars

\* C33 (as claimed, the playback slot): whenever a source is live,
\* audioSourceRef holds that source, so that the next stopAudio reaches it;
\* the ended event of a superseded source does not change that.
C33_LiveSourceIsHeld ==
  \A s \in Live(sources) : audioSourceRef = s

\* ... and the speaking indicator is true while a source is live
C33_LiveSourceIsIndicated ==
  \A s \in Live(sources) : isPlayingAudio

\* C34 (as claimed): the timer of a browser-speech playback clears the
\* speaking indicator for that playback only: when it fires while a newer
\* playback, here a source started later and held in audioSourceRef, is
\* sounding, the indicator stays true.
C34_TimerClearsOwnPlaybackOnly ==
  [][(/\ timers' < timers
      /\ audioSourceRef # NoSource
      /\ sources[audioSourceRef] = "playing") => isPlayingAudio']_vars

\* ------------------------------------------------------- loading claims
\* C35: every started session and every accepted submit leads to the loading
\* flag being false again with one narrator turn appended for it, once its
\* text call has returned: a loading session has its text call in flight, and
\* the step in which a text call returns, with a reply or with a failure,
\* clears the loading flag and appends one narrator turn.
TextCallReturns(r) == r \in textReqs /\ r \notin textReqs'

C35_TextCallReturnEndsLoading ==
  /\ []((pc = "mounted" /\ isLoading) => textReqs # {})
  /\ [][\A r \in textReqs :
          TextCallReturns(r) =>
            /\ ~isLoading'
            /\ Len(history') = Len(history) + 1
            /\ history'[Len(history')].role = "model"]_vars

\* a session whose text call has failed stays loading whatever happens next
C35_StrandedStaysLoading ==
  [][(isLoading /\ textReqs = {}) => (isLoading' /\ textReqs' = {})]_vars

\* --------------------------------------------------------- intro claims
\* C36: from the default settings, after any sequence of operations of the
\* settings form, the model name starts with 'gemini' whenever the provider
\* is 'gemini'; a switch to 'gemini' sets the model name to
\* 'gemini-2.5-flash', a switch to 'external' clears a model name that starts
\* with 'gemini' and leaves any other unchanged.
SwitchedTo(p) ==
  intro'.last = "handleProviderSwitch" /\ intro'.settings.provider = p

BlankKey == trim(intro.settings.apiKey) = <<>>

C37_Started ==
  /\ intro.gameState = "PLAYING"
  /\ intro.settings.provider = "gemini"

====
